---- MODULE Spec2Model ----
(***************************************************************************)
(* Model of basler-stereo-vision/src/camera/basler_camera.py: the capture  *)
(* engine BaslerCamera (initialize, start/stop grabbing, capture_frame,    *)
(* capture_frame_continuous, capture_stereo_frames, close) and the         *)
(* parameter configurator _safe_set_parameter.                             *)
(*                                                                         *)
(* The pylon device behind self.camera is the environment: every device    *)
(* call either completes or raises, chosen nondeterministically.           *)
(***************************************************************************)
EXTENDS Integers, Sequences, FiniteSets, TLC

VARIABLES
    \* ---- fields of the two BaslerCamera objects (basler_camera.py:6-12)
    camera_index,   \* [Cam -> Int]       constructor argument
    camera_ip,      \* [Cam -> {"None","ip"}]
    camera,         \* [Cam -> {"None","Dev"}]  self.camera: no handle / an InstantCamera
    converter,      \* [Cam -> {"None","Conv"}] self.converter
    is_grabbing,    \* [Cam -> BOOLEAN]   self.is_grabbing
    \* ---- state of the device handle held in self.camera
    devOpen,        \* [Cam -> BOOLEAN]   what camera.IsOpen() reports
    devGrabbing,    \* [Cam -> BOOLEAN]   what camera.IsGrabbing() reports
    \* ---- the control thread
    pc,             \* "idle" | "cf" (inside the while loop of capture_frame)
    caller,         \* "client" | "stereo": who called the running capture_frame
    cur,            \* the engine the last / running operation works on
    retry_count,    \* local of capture_frame
    max_retries,    \* argument of capture_frame
    left_frame,     \* local of capture_stereo_frames
    \* ---- what the last operation did (observations)
    op,             \* name of the last / running public operation
    pre,            \* engine fields when the operation was called
    result,         \* its return value: "None" | "True" | "False" | "frame"
    pair,           \* return value of capture_stereo_frames
    cfReturn,       \* [Cam -> last return value of capture_frame on that engine]
    raised,         \* an exception escaped the operation
    calls,          \* device calls made by the last start_grabbing (also inside
                    \* capture_frame_continuous) / stop_grabbing / close
    closeExc,       \* an exception left the try block of the last close()
    grabs,          \* GrabOne calls issued by the running capture_frame
    frameOf,        \* the grab (1..grabs) the returned frame was converted from
    grabState,      \* <<is_grabbing, device grabbing>> at the last GrabOne, or <<>>
    unreleased,     \* grab results obtained by the operation and not released
    initLog,        \* what the last initialize() saw and did
    grabError,      \* error code / description read from the last failed grab of
                    \* the running capture_frame (lines 421-422), "none" if none
    trace,          \* what the running / last capture operation did, in order:
                    \* <<"call", c>>, <<"grab", c>>, <<"ret", c>> for capture_frame on
                    \* engine c and its GrabOne calls, <<"stop", c>> for its
                    \* StopGrabbing calls, <<"IsOpenRaised", c>> for an IsOpen() of
                    \* line 383 that raised, <<"report", "pair">> for the capture
                    \* time written by capture_stereo_frames
    delays,         \* the delays (ms) the running capture_frame slept, in order
    contRun,        \* the running / last call is a capture_frame_continuous that
                    \* directly follows another capture_frame_continuous
    \* ---- one call of _safe_set_parameter
    param_names,    \* the alias list
    retries,        \* argument retries
    node,           \* [alias -> "absent" | "RO" | "RW" | "WO"] GetNode / GetAccessMode
    alias_i,        \* position in param_names of the alias being tried (1-based)
    attempt,        \* loop variable of the inner for
    sp_pc,          \* "run" | "done"
    sp_result,      \* <<success, alias>>: <<FALSE, 0>> is (False, None)
    sp_raised,      \* an exception escaped _safe_set_parameter
    probes,         \* [alias -> number of attempts made on it]
    excs,           \* [alias -> number of attempts on it that ended in the except clause]
    writes,         \* [alias -> number of SetValue calls on it]
    okWrite,        \* the alias on which a SetValue completed without raising, 0: none yet
    readBack,       \* the read-back of the last attempt (lines 54-65): "none" (not
                    \* reached) | "equal" | "differs" | "raised"
    \* ---- the device's node map, as _configure_camera meets it
    devNode,        \* [parameter name -> "ok" | "absent" | "RO" | "raise" | "noaccess"]
    \* ---- one run of an entry script
    script,         \* which script runs
    s_pc,           \* "start" | "ready" | "captured" | "cleanup" | "done"
    s_initRet,      \* <<r1, r2>>: what initialize() returned, "notcalled" if not called
    s_closes,       \* the cameras (1, 2) close() was called on, in call order
    s_frames,       \* the pair last captured, <<>> before the first capture
    s_report,       \* what the script printed about the last capture
    s_stages,       \* the processing stages invoked on the captured pair, in order
    s_exc,          \* a processing stage raised (caught by the script)
    s_count,        \* frame_count of example_camera_usage.py
    \* ---- one call of estimate_depth / estimate_depth_sgbm, one image row
    d_est,          \* "none" | "bm" (estimate_depth) | "sgbm" (estimate_depth_sgbm) |
                    \* "raised" (stereo.compute raised, nothing was returned)
    d_left,         \* <<w, h>> of gray_left
    d_right,        \* <<w, h>> of gray_right
    d_small,        \* <<size of gray_left_small, size of gray_right_small>>, each <<w, h>>
    d_shape,        \* <<height, width>> of the visualization returned, <<>> if none
    d_wide,         \* w > 2000: the matcher ran on the half-size images
    d_raw,          \* stereo.compute(...): 16-bit fixed point, 1/16 pixel units
    d_disp,         \* disparity after rescaling and marking, in 1/16 pixel
    d_vis,          \* disparity_normalized.astype(np.uint8)
    \* ---- one call of align_stereo_pair_horizontally (rectification.py:78-142)
    a_pc,           \* "start" | "done"
    a_des,          \* <<des1 is not None, des2 is not None>>
    a_knn,          \* bf.knnMatch(des1, des2, k=2): [kind of match pair -> how many]
    a_left,         \* img_left, one pixel column
    a_right,        \* img_right, one pixel column
    a_out,          \* the returned pair of images, <<>> before the return
    a_shift,        \* the matrix M handed to warpAffine: <<dx, 2*dy>>, <<>> if none
    a_ret           \* the return statement taken: 101 | 118 | 140 | 142, 0 before

engineVars == <<camera_index, camera_ip, camera, converter, is_grabbing,
                devOpen, devGrabbing, pc, caller, cur, retry_count, max_retries,
                left_frame, op, pre, result, pair, cfReturn, raised, calls, grabs,
                frameOf, grabState, unreleased, initLog, closeExc, grabError,
                trace, delays, contRun>>
paramVars  == <<param_names, retries, node, alias_i, attempt, sp_pc, sp_result,
                sp_raised, probes, excs, writes, okWrite, readBack>>
cfgVars    == <<devNode>>
scriptVars == <<script, s_pc, s_initRet, s_closes, s_frames, s_report, s_stages,
                s_exc, s_count>>
depthVars  == <<d_est, d_left, d_right, d_small, d_shape, d_wide, d_raw, d_disp, d_vis>>
alignVars  == <<a_pc, a_des, a_knn, a_left, a_right, a_out, a_shift, a_ret>>
nonEngineVars == <<paramVars, cfgVars, scriptVars, depthVars, alignVars>>
nonParamVars  == <<engineVars, cfgVars, scriptVars, depthVars, alignVars>>
nonScriptVars == <<engineVars, paramVars, cfgVars, depthVars, alignVars>>
nonDepthVars  == <<engineVars, paramVars, cfgVars, scriptVars, alignVars>>
nonAlignVars  == <<engineVars, paramVars, cfgVars, scriptVars, depthVars>>
vars == <<engineVars, paramVars, cfgVars, scriptVars, depthVars, alignVars>>

\* ------------------------------------------------------------------ bounds
MaxDevices == 2      \* devices an enumeration can yield: 0..MaxDevices
MaxRetriesArg == 2   \* capture_frame is called with max_retries in 0..MaxRetriesArg
MaxIndex == 2        \* constructor camera_index ranges over -MaxIndex-1..MaxIndex
MaxAliases == 2      \* alias lists have 1..MaxAliases names
MaxRetries == 3      \* _safe_set_parameter is called with retries in 0..MaxRetries
RowLen == 4          \* pixels of the row the stereo matcher returns
MaxPairs == 3        \* example_camera_usage.py is followed for up to MaxPairs saved pairs
MaxMatches == 11     \* match pairs of one kind that knnMatch returns: 0..MaxMatches
ImgH == 4            \* rows of the pixel column an image is followed by

Cam == {"left", "right"}
Out == {"ok", "raise"}
AttemptEvents == {"none", "IsOpen", "IsGrabbing", "GrabOne", "GrabFailed", "Convert"}
RetrieveEvents == {"none", "IsOpen", "RetrieveResult", "RetrieveFailed", "Convert"}
DefaultMaxRetries == 2
DefaultRetries == 3

Fields(c) == [camera |-> camera[c], converter |-> converter[c],
              is_grabbing |-> is_grabbing[c]]
NoInit == [n |-> 0, mode |-> "none", openFailed |-> FALSE, selected |-> -1,
           configured |-> FALSE, raisedAt |-> "none", stale |-> FALSE, stops |-> 0,
           grabbingAtCfg |-> FALSE, cfgRaised |-> FALSE, writes |-> <<>>,
           steps |-> <<>>, orphan |-> FALSE]

\* ------------------------------------------------- stop_grabbing / start_grabbing

\* stop_grabbing (basler_camera.py:362-370); so: outcome of camera.StopGrabbing().
\* The except clause swallows a raising StopGrabbing: the flag then stays set.
stop_grabbing(c, so) ==
    IF camera[c] # "None" /\ is_grabbing[c]
    THEN IF so = "ok"
         THEN [is_grabbing |-> FALSE, devGrabbing |-> FALSE, calls |-> {"StopGrabbing"}]
         ELSE [is_grabbing |-> TRUE, devGrabbing |-> devGrabbing[c],
               calls |-> {"StopGrabbing"}]
    ELSE [is_grabbing |-> is_grabbing[c], devGrabbing |-> devGrabbing[c], calls |-> {}]

\* start_grabbing (basler_camera.py:350-360); io: camera.IsOpen(), st: StartGrabbing().
\* Falls off the end (returns None) when there is no open camera.
start_grabbing(c, io, st) ==
    IF camera[c] = "None"
    THEN [ret |-> "None", is_grabbing |-> is_grabbing[c],
          devGrabbing |-> devGrabbing[c], calls |-> {}]
    ELSE IF io = "raise"
    THEN [ret |-> "False", is_grabbing |-> is_grabbing[c],
          devGrabbing |-> devGrabbing[c], calls |-> {"IsOpen"}]
    ELSE IF ~devOpen[c]
    THEN [ret |-> "None", is_grabbing |-> is_grabbing[c],
          devGrabbing |-> devGrabbing[c], calls |-> {"IsOpen"}]
    ELSE IF st = "raise"
    THEN [ret |-> "False", is_grabbing |-> is_grabbing[c],
          devGrabbing |-> devGrabbing[c], calls |-> {"IsOpen", "StartGrabbing"}]
    ELSE [ret |-> "True", is_grabbing |-> TRUE, devGrabbing |-> TRUE,
          calls |-> {"IsOpen", "StartGrabbing"}]

\* is_connected (basler_camera.py:559-564); io: outcome of camera.IsOpen(),
\* called only when a handle is held.  It changes nothing.
is_connected(c, io) ==
    IF camera[c] = "None" THEN FALSE
    ELSE IF io = "raise" THEN FALSE
    ELSE devOpen[c]

\* The observations every client call resets.
Begin(name, c) ==
    /\ op' = name
    /\ cur' = c
    /\ pre' = Fields(c)
    /\ raised' = FALSE
    /\ grabs' = 0
    /\ frameOf' = 0
    /\ grabState' = <<>>
    /\ initLog' = NoInit
    /\ closeExc' = FALSE
    /\ grabError' = "none"
    /\ trace' = IF name \in {"capture_frame", "capture_stereo_frames"}
                THEN <<<<"call", c>>>> ELSE <<>>
    /\ delays' = <<>>
    /\ contRun' = (name = "capture_frame_continuous" /\ op = "capture_frame_continuous")

StopGrabbing(c) ==
    /\ pc = "idle"
    /\ \E so \in Out :
        LET r == stop_grabbing(c, so) IN
        /\ is_grabbing' = [is_grabbing EXCEPT ![c] = r.is_grabbing]
        /\ devGrabbing' = [devGrabbing EXCEPT ![c] = r.devGrabbing]
        /\ calls' = r.calls
    /\ Begin("stop_grabbing", c)
    /\ result' = "None"
    /\ unreleased' = 0
    /\ UNCHANGED <<camera_index, camera_ip, camera, converter, devOpen, pc, caller,
                   retry_count, max_retries, left_frame, pair, cfReturn>>
    /\ UNCHANGED nonEngineVars

StartGrabbing(c) ==
    /\ pc = "idle"
    /\ \E io \in Out, st \in Out :
        LET r == start_grabbing(c, io, st) IN
        /\ is_grabbing' = [is_grabbing EXCEPT ![c] = r.is_grabbing]
        /\ devGrabbing' = [devGrabbing EXCEPT ![c] = r.devGrabbing]
        /\ calls' = r.calls
        /\ result' = r.ret
    /\ Begin("start_grabbing", c)
    /\ unreleased' = 0
    /\ UNCHANGED <<camera_index, camera_ip, camera, converter, devOpen, pc, caller,
                   retry_count, max_retries, left_frame, pair, cfReturn>>
    /\ UNCHANGED nonEngineVars

\* ------------------------------------------------------------------ close

\* close without the "self.camera and" test: IsOpen is called on None
close_try_NoHandleTest(c, so, io, co) ==
    LET s == IF is_grabbing[c] THEN stop_grabbing(c, so)
             ELSE [is_grabbing |-> FALSE, devGrabbing |-> devGrabbing[c], calls |-> {}]
    IN  IF camera[c] = "None" \/ io = "raise"
        THEN [exc |-> TRUE, calls |-> s.calls \cup {"IsOpen"}]
        ELSE IF ~devOpen[c]
        THEN [exc |-> FALSE, calls |-> s.calls \cup {"IsOpen"}]
        ELSE [exc |-> co = "raise", calls |-> s.calls \cup {"IsOpen", "Close"}]

\* The try block of close (basler_camera.py:568-574); so, io, co: outcomes of
\* StopGrabbing(), IsOpen() and Close().  exc: an exception left the try block.
close_try(c, so, io, co) ==
    LET s == IF is_grabbing[c] THEN stop_grabbing(c, so)
             ELSE [is_grabbing |-> FALSE, devGrabbing |-> devGrabbing[c], calls |-> {}]
    IN  IF camera[c] = "None"
        THEN [exc |-> FALSE, calls |-> s.calls]
        ELSE IF io = "raise"
        THEN [exc |-> TRUE, calls |-> s.calls \cup {"IsOpen"}]
        ELSE IF ~devOpen[c]
        THEN [exc |-> FALSE, calls |-> s.calls \cup {"IsOpen"}]
        ELSE [exc |-> co = "raise", calls |-> s.calls \cup {"IsOpen", "Close"}]

\* close with the reset at the end of the try block instead of in finally
close_finally_ResetInTry(c, t) ==
    IF t.exc
    THEN [raised |-> FALSE, camera |-> camera[c], converter |-> converter[c],
          is_grabbing |-> is_grabbing[c]]
    ELSE [raised |-> FALSE, camera |-> "None", converter |-> "None",
          is_grabbing |-> FALSE]

\* except Exception / finally of close (basler_camera.py:576-581): the exception is
\* logged, never re-raised, and the three fields are reset whatever happened.
close_finally(c, t) ==
    [raised |-> FALSE, camera |-> "None", converter |-> "None", is_grabbing |-> FALSE]

Close(c) ==
    /\ pc = "idle"
    /\ \E so \in Out, io \in Out, co \in Out :
        LET t == close_try(c, so, io, co)
            f == close_finally(c, t)
        IN
        \* an outcome is chosen only for a call that close makes
        /\ so = "raise" => is_grabbing[c] /\ camera[c] # "None"
        /\ io = "raise" => camera[c] # "None"
        /\ co = "raise" => camera[c] # "None" /\ io = "ok" /\ devOpen[c]
        /\ camera' = [camera EXCEPT ![c] = f.camera]
        /\ converter' = [converter EXCEPT ![c] = f.converter]
        /\ is_grabbing' = [is_grabbing EXCEPT ![c] = f.is_grabbing]
        \* devOpen / devGrabbing describe the handle in self.camera: none is held now
        /\ devOpen' = [devOpen EXCEPT ![c] = IF f.camera = "None" THEN FALSE ELSE @]
        /\ devGrabbing' = [devGrabbing EXCEPT ![c] = IF f.camera = "None" THEN FALSE ELSE @]
        /\ calls' = t.calls
        /\ closeExc' = t.exc
        /\ grabError' = "none"
        /\ trace' = <<>> /\ delays' = <<>> /\ contRun' = FALSE
        /\ op' = "close" /\ cur' = c /\ pre' = Fields(c)
        /\ raised' = f.raised
    /\ grabs' = 0 /\ frameOf' = 0 /\ grabState' = <<>> /\ initLog' = NoInit
    /\ result' = "None"
    /\ unreleased' = 0
    /\ UNCHANGED <<camera_index, camera_ip, pc, caller,
                   retry_count, max_retries, left_frame, pair, cfReturn>>
    /\ UNCHANGED nonEngineVars

\* ---------------------------------------------------------------- capture_frame

\* a loop that never gives up
LoopContinues_Unbounded(rc, mr) == TRUE

\* the loop test off by one: one retry too many
LoopContinues_OneMore(rc, mr) == rc <= mr + 1

\* while retry_count <= max_retries (basler_camera.py:381)
LoopContinues(rc, mr) == rc <= mr

\* the test of the device left out: capture goes on with a device that is not open
Unopened_Ignored(c) == FALSE

\* not self.camera.IsOpen() (basler_camera.py:383), when IsOpen() answers
Unopened(c) == ~devOpen[c]

\* One pass through the body of the while loop (basler_camera.py:382-447).
\* so: outcome of StopGrabbing(); e: what goes wrong in this pass: the call that
\* raises ("IsOpen", "IsGrabbing", "GrabOne", "Convert": converter.Convert or
\* GetArray), "GrabFailed" (GrabOne returns a result that reports failure), or
\* "none".
\*   kind "return": the body returned value; kind "fail": it reached
\*   retry_count += 1; continue.
Attempt(c, so, e) ==
    LET same == [is_grabbing |-> is_grabbing[c], devGrabbing |-> devGrabbing[c],
                 grabbed |-> FALSE, snap |-> <<>>, leaked |-> 0, stopReq |-> FALSE]
    IN
    IF camera[c] = "None"                                         \* line 383
    THEN same @@ [kind |-> "return", value |-> "None"]
    ELSE IF e = "IsOpen"
    THEN same @@ [kind |-> "fail", value |-> "None"]
    ELSE IF Unopened(c)
    THEN same @@ [kind |-> "return", value |-> "None"]
    ELSE IF ~is_grabbing[c] /\ e = "IsGrabbing"                   \* line 389
    THEN same @@ [kind |-> "fail", value |-> "None"]
    ELSE
      LET stop  == is_grabbing[c] \/ devGrabbing[c]
          \* lines 390-395: a raising StopGrabbing is logged and capture goes on
          g     == IF stop /\ so = "ok" THEN FALSE ELSE is_grabbing[c]
          dg    == IF stop /\ so = "ok" THEN FALSE ELSE devGrabbing[c]
          base  == [is_grabbing |-> g, devGrabbing |-> dg, grabbed |-> TRUE,
                    snap |-> <<g, dg>>, stopReq |-> stop]
      IN
      IF e = "GrabOne"                                            \* line 405 raises
      THEN base @@ [kind |-> "fail", value |-> "None", leaked |-> 0]
      ELSE IF e = "GrabFailed"                                    \* lines 419-432
      THEN base @@ [kind |-> "fail", value |-> "None", leaked |-> 0]
      ELSE IF converter[c] = "None" \/ e = "Convert"              \* line 409/410 raises
      THEN base @@ [kind |-> "fail", value |-> "None", leaked |-> 1]
      ELSE base @@ [kind |-> "return", value |-> "frame", leaked |-> 0]  \* 413-418

\* the right camera left alone when the left capture failed
RightCalled_IfLeftFrame(left_value) == left_value # "None"

\* right_frame = camera_right.capture_frame(timeout_ms) (basler_camera.py:497)
\* follows the left capture under no condition
RightCalled(left_value) == TRUE

\* time.sleep(0.2) (basler_camera.py:400), in milliseconds
RetryDelay == 200

\* if retry_count > 0: ... time.sleep(0.2) (basler_camera.py:398-400)
Slept(rc) == IF rc > 0 THEN <<RetryDelay>> ELSE <<>>

\* if left_frame is not None and right_frame is not None: logger.debug(capture
\* time) (basler_camera.py:501-502)
TimeReported(l, r) == l # "None" /\ r # "None"

\* an all-or-nothing pair: both frames dropped when either is absent
StereoReturn_AllOrNothing(l, r) ==
    IF l = "None" \/ r = "None" THEN <<"None", "None">> ELSE <<l, r>>

\* capture_stereo_frames returns left_frame, right_frame (basler_camera.py:504)
StereoReturn(l, r) == <<l, r>>

\* a pass that goes round the loop again whatever it obtained
Returns_LoopOn(kind) == FALSE

\* `return None` (basler_camera.py:385) and `return img_array` (line 418) leave
\* the loop; the failing passes end in `continue` (lines 432, 447)
Returns(kind) == kind = "return"

\* capture_frame(timeout_ms, max_retries) is called by the client: retry_count = 0
CaptureFrame(c) ==
    /\ pc = "idle"
    /\ \E mr \in 0..MaxRetriesArg : max_retries' = mr
    /\ pc' = "cf"
    /\ caller' = "client"
    /\ retry_count' = 0
    /\ Begin("capture_frame", c)
    /\ result' = "None"
    /\ calls' = {}
    /\ unreleased' = 0
    /\ UNCHANGED <<camera_index, camera_ip, camera, converter, is_grabbing, devOpen,
                   devGrabbing, left_frame, pair, cfReturn>>
    /\ UNCHANGED nonEngineVars

\* capture_stereo_frames(camera_left, camera_right) (basler_camera.py:484-504):
\* it calls capture_frame(timeout_ms) on the left engine first (line 494).
CaptureStereo ==
    /\ pc = "idle"
    /\ max_retries' = DefaultMaxRetries
    /\ pc' = "cf"
    /\ caller' = "stereo"
    /\ retry_count' = 0
    /\ Begin("capture_stereo_frames", "left")
    /\ result' = "None"
    /\ calls' = {}
    /\ unreleased' = 0
    /\ left_frame' = "None"
    /\ pair' = <<>>
    /\ UNCHANGED <<camera_index, camera_ip, camera, converter, is_grabbing, devOpen,
                   devGrabbing, cfReturn>>
    /\ UNCHANGED nonEngineVars

\* One iteration of the loop of the running capture_frame, up to the next test of
\* the loop condition; when capture_frame returns, control goes back to its caller.
CaptureAttempt ==
    /\ pc = "cf"
    /\ \E so \in Out, e \in AttemptEvents :
        LET a     == Attempt(cur, so, e)
            rc    == IF a.kind = "fail" THEN retry_count + 1 ELSE retry_count
            done  == Returns(a.kind) \/ ~LoopContinues(rc, max_retries)
            value == IF a.kind = "return" THEN a.value ELSE "None"
            ng    == IF a.grabbed THEN grabs + 1 ELSE grabs
            \* lines 419-422: grabResult.ErrorCode, grabResult.ErrorDescription
            err   == IF a.grabbed /\ e = "GrabFailed" THEN "ErrorCode" ELSE grabError
            \* the pass reached line 398: it slept if it is a retry, then grabbed
            tr0   == IF camera[cur] # "None" /\ e = "IsOpen"
                     THEN Append(trace, <<"IsOpenRaised", cur>>) ELSE trace
            tr1   == IF a.stopReq THEN Append(tr0, <<"stop", cur>>) ELSE tr0
            tr    == IF a.grabbed THEN Append(tr1, <<"grab", cur>>) ELSE tr1
            dl    == IF a.grabbed THEN delays \o Slept(retry_count) ELSE delays
        IN
        /\ is_grabbing' = [is_grabbing EXCEPT ![cur] = a.is_grabbing]
        /\ devGrabbing' = [devGrabbing EXCEPT ![cur] = a.devGrabbing]
        /\ IF ~done
           THEN /\ retry_count' = rc
                /\ grabs' = ng
                /\ frameOf' = 0
                /\ grabState' = IF a.grabbed THEN a.snap ELSE grabState
                /\ unreleased' = unreleased + a.leaked
                /\ grabError' = err
                /\ trace' = tr
                /\ delays' = dl
                /\ UNCHANGED <<pc, cur, left_frame, pair, result, cfReturn, caller, pre>>
           ELSE IF caller = "stereo" /\ cur = "left" /\ RightCalled(value)
           THEN \* line 497: right_frame = camera_right.capture_frame(timeout_ms)
                /\ left_frame' = value
                /\ cfReturn' = [cfReturn EXCEPT !["left"] = value]
                /\ cur' = "right"
                /\ pre' = Fields("right")
                /\ retry_count' = 0
                /\ grabs' = 0
                /\ frameOf' = 0
                /\ grabState' = <<>>
                /\ unreleased' = 0
                /\ grabError' = "none"
                /\ trace' = tr \o <<<<"ret", "left">>, <<"call", "right">>>>
                /\ delays' = <<>>
                /\ UNCHANGED <<pc, pair, result, caller>>
           ELSE /\ pc' = "idle"
                /\ retry_count' = rc
                /\ grabs' = ng
                /\ frameOf' = IF value = "frame" THEN ng ELSE 0
                /\ grabState' = IF a.grabbed THEN a.snap ELSE grabState
                /\ unreleased' = unreleased + a.leaked
                /\ cfReturn' = [cfReturn EXCEPT ![cur] = value]
                /\ grabError' = err
                /\ delays' = dl
                /\ IF caller = "stereo"
                   THEN /\ pair' = StereoReturn(left_frame, value)
                        /\ result' = "None"
                        /\ trace' = tr \o <<<<"ret", cur>>>> \o
                                     (IF TimeReported(left_frame, value)
                                      THEN <<<<"report", "pair">>>> ELSE <<>>)
                   ELSE /\ result' = value
                        /\ trace' = Append(tr, <<"ret", cur>>)
                        /\ UNCHANGED pair
                /\ UNCHANGED <<cur, left_frame, caller, pre>>
    /\ UNCHANGED <<camera_index, camera_ip, camera, converter, devOpen, max_retries,
                   op, raised, initLog, calls, closeExc, contRun>>
    /\ UNCHANGED nonEngineVars

\* ------------------------------------------------------ capture_frame_continuous

\* capture_frame_continuous (basler_camera.py:451-481).  io2, st: IsOpen() and
\* StartGrabbing() inside start_grabbing (line 460); e: what goes wrong: the call
\* that raises ("IsOpen" at line 454, "RetrieveResult", "Convert"), or
\* "RetrieveFailed" (a result that reports failure), or "none".
\* Every exception is caught (lines 479-481): None.
capture_frame_continuous(c, io2, st, e) ==
    LET same == [is_grabbing |-> is_grabbing[c], devGrabbing |-> devGrabbing[c],
                 leaked |-> 0, calls |-> {}]
    IN
    IF camera[c] = "None" \/ e = "IsOpen" \/ ~devOpen[c]
    THEN same @@ [ret |-> "None"]
    ELSE
      LET sg == IF ~is_grabbing[c] THEN start_grabbing(c, io2, st)
                ELSE [ret |-> "None", is_grabbing |-> TRUE,
                      devGrabbing |-> devGrabbing[c], calls |-> {}]
          base == [is_grabbing |-> sg.is_grabbing, devGrabbing |-> sg.devGrabbing,
                   calls |-> sg.calls]
      IN
      IF e = "RetrieveResult"
      THEN base @@ [ret |-> "None", leaked |-> 0]
      ELSE IF e = "RetrieveFailed"                                \* lines 474-477
      THEN base @@ [ret |-> "None", leaked |-> 0]
      ELSE IF converter[c] = "None" \/ e = "Convert"              \* line 467/468 raises
      THEN base @@ [ret |-> "None", leaked |-> 1]
      ELSE base @@ [ret |-> "frame", leaked |-> 0]                \* lines 471-473

CaptureFrameContinuous(c) ==
    /\ pc = "idle"
    /\ \E io2 \in Out, st \in Out, e \in RetrieveEvents :
        LET r == capture_frame_continuous(c, io2, st, e) IN
        \* an outcome is chosen only for a call that start_grabbing makes
        /\ io2 = "raise" \/ st = "raise" => ~is_grabbing[c] /\ e # "IsOpen"
        /\ io2 = "raise" => st = "ok"
        /\ is_grabbing' = [is_grabbing EXCEPT ![c] = r.is_grabbing]
        /\ devGrabbing' = [devGrabbing EXCEPT ![c] = r.devGrabbing]
        /\ result' = r.ret
        /\ unreleased' = r.leaked
        /\ calls' = r.calls
    /\ Begin("capture_frame_continuous", c)
    /\ UNCHANGED <<camera_index, camera_ip, camera, converter, devOpen, pc, caller,
                   retry_count, max_retries, left_frame, pair, cfReturn>>
    /\ UNCHANGED nonEngineVars

\* ------------------------------------------------------------ device selection

\* seq[i] of a Python sequence of length len: the position read, -1 for IndexError
PyIndex(i, len) ==
    IF i >= len \/ i < -len THEN -1 ELSE IF i < 0 THEN i + len ELSE i

\* Device selection of initialize (basler_camera.py:159-189): the position in the
\* enumerated list of the selected device, -1 when a RuntimeError / IndexError is
\* raised.  n: devices enumerated; d: entries discover_cameras() collected.
SelectDevice(ip, idx, n, d) ==
    IF ip # "None"
    THEN IF n = 0 THEN -1 ELSE 0                                  \* lines 166-169
    ELSE IF n = 0 THEN -1                                         \* line 176
    ELSE IF idx >= n THEN -1                                      \* line 183
    ELSE IF PyIndex(idx, n) = -1 THEN -1                          \* line 187
    ELSE IF PyIndex(idx, d) = -1 THEN -1                          \* line 189
    ELSE PyIndex(idx, n)

\* --------------------------------------------------------- _configure_camera

\* How the device answers for one parameter: "ok" (present, writable, the write
\* is accepted), "absent", "RO" (present, not writable), "raise" (every SetValue
\* on it raises), "noaccess" (reaching the node or attribute itself raises).
NodeOutcomes == {"ok", "absent", "RO", "raise", "noaccess"}

\* the transport-layer parameters, basler_camera.py:239-294
TransportParams ==
    {"StreamGrabber.MaxNumBuffer", "StreamGrabber.MaxBufferSize",
     "GevSCPSPacketSize", "GevSCPD", "GevSCFTD", "GevHeartbeatTimeout"}

\* format_priority (basler_camera.py:323)
FormatPriority == <<"RGB8", "BayerRG8", "BayerGB8", "BayerGR8", "BayerBG8", "Mono8">>

\* The pixel formats PixelFormat.SetValue is called with.  The device answers
\* for a format as for a parameter: "absent" (not among param.Symbolics), "ok"
\* (SetValue(fmt) is accepted), anything else (SetValue(fmt) raises).
Formats == {FormatPriority[i] : i \in DOMAIN FormatPriority}

\* the acquisition parameters, basler_camera.py:296-336 and 90-104; a write of
\* PixelFormat is named by the format written
AcquisitionParams ==
    {"AcquisitionMode", "ExposureTime", "ExposureTimeAbs", "Gain", "GainRaw",
     "PixelFormat", "AcquisitionFrameRateEnable", "AcquisitionFrameRate",
     "AcquisitionFrameRateAbs", "Width", "Height"} \cup Formats

\* every name _configure_camera reaches for
CfgParams ==
    TransportParams \cup AcquisitionParams \cup {"StreamGrabber", "BalanceWhiteAuto"}

\* A block of statements has run: raised (an exception is leaving it) and the
\* SetValue calls it issued, in order, by parameter name.
NoWrite == [raised |-> FALSE, writes |-> <<>>]
Raise == [raised |-> TRUE, writes |-> <<>>]
Repeat(name, k) == [i \in 1..k |-> name]

\* statement sequencing: s runs only if no exception is leaving r
Then(r, s) ==
    IF r.raised THEN r ELSE [raised |-> s.raised, writes |-> r.writes \o s.writes]

\* a handler that lets the exception go on
Handled_Propagates(r) == r

\* try: ... except Exception: log (basler_camera.py:254, 263, 265, 335, 347)
Handled(r) == [r EXCEPT !.raised = FALSE]

\* _safe_set_parameter(names, value) with the default retries
\* (basler_camera.py:17-84) on a device whose nodes answer as nd: the aliases are
\* tried in order; an absent or read-only alias is left after one probe without
\* a write, an unreachable one after DefaultRetries probes without a write, one
\* whose SetValue raises after DefaultRetries writes; the first accepted write
\* returns (True, alias).
RECURSIVE SafeSet(_, _)
SafeSet(names, nd) ==
    IF names = <<>>
    THEN [success |-> FALSE, used |-> "None", writes |-> <<>>]
    ELSE LET a == Head(names)
             rest == SafeSet(Tail(names), nd)
         IN
         IF nd[a] = "ok"
         THEN [success |-> TRUE, used |-> a, writes |-> <<a>>]
         ELSE IF nd[a] = "raise"
         THEN [rest EXCEPT !.writes = Repeat(a, DefaultRetries) \o @]
         ELSE rest

\* a call of _safe_set_parameter as a statement: it raises nothing
Set(names, nd) == [raised |-> FALSE, writes |-> SafeSet(names, nd).writes]

\* one stream-grabber parameter (basler_camera.py:250-255, 258-264): hasattr,
\* then SetValue with no writability test, in a try of its own
GrabberParam(nd, p) ==
    IF nd[p] = "absent" THEN NoWrite
    ELSE IF nd[p] = "noaccess" THEN Raise
    ELSE Handled([raised |-> nd[p] # "ok", writes |-> <<p>>])

\* basler_camera.py:244-266
StreamGrabberBlock(nd) ==
    Handled(IF nd["StreamGrabber"] = "absent" THEN NoWrite
            ELSE IF nd["StreamGrabber"] = "noaccess" THEN Raise
            ELSE Then(GrabberParam(nd, "StreamGrabber.MaxNumBuffer"),
                      GrabberParam(nd, "StreamGrabber.MaxBufferSize")))

\* basler_camera.py:244-294
TransportSection(nd) ==
    Then(StreamGrabberBlock(nd),
    Then(Set(<<"GevSCPSPacketSize">>, nd),
    Then(Set(<<"GevSCPD">>, nd),
    Then(Set(<<"GevSCFTD">>, nd),
         Set(<<"GevHeartbeatTimeout">>, nd)))))

\* basler_camera.py:309-311: GainRaw is tried only when Gain was not set
GainStep(nd) ==
    LET g == SafeSet(<<"Gain">>, nd) IN
    IF g.success
    THEN [raised |-> FALSE, writes |-> g.writes]
    ELSE [raised |-> FALSE, writes |-> g.writes \o SafeSet(<<"GainRaw">>, nd).writes]

\* param.SetValue(fmt) returns (basler_camera.py:328): on a PixelFormat node
\* that answers "raise" every SetValue raises
FormatAccepted(nd, f) == nd["PixelFormat"] = "ok" /\ nd[f] = "ok"

\* the loop going on to the formats left after an accepted write
AfterAccepted_Continue(rest) == rest

\* pixel_format_set = True; break (basler_camera.py:330-331): the formats left
\* are not written
AfterAccepted(rest) == <<>>

\* for fmt in format_priority (basler_camera.py:325-334): the SetValue(fmt)
\* calls in order; a format not in available_formats is passed over (326), a
\* write that raises is logged and the loop goes on (332-334)
RECURSIVE FormatWrites(_, _)
FormatWrites(fmts, nd) ==
    IF fmts = <<>> THEN <<>>
    ELSE LET f == Head(fmts)
             rest == FormatWrites(Tail(fmts), nd)
         IN
         IF nd[f] = "absent" THEN rest
         ELSE IF FormatAccepted(nd, f) THEN <<f>> \o AfterAccepted(rest)
         ELSE <<f>> \o rest

\* basler_camera.py:317-336: the formats of the priority list the device offers
\* are written in order until one is accepted
PixelFormatBlock(nd) ==
    Handled(IF nd["PixelFormat"] \in {"absent", "RO"} THEN NoWrite
            ELSE IF nd["PixelFormat"] = "noaccess" THEN Raise
            ELSE [raised |-> FALSE, writes |-> FormatWrites(FormatPriority, nd)])

\* basler_camera.py:296-336
AcquisitionSection(nd) ==
    Then(Set(<<"AcquisitionMode">>, nd),
    Then(Set(<<"ExposureTime", "ExposureTimeAbs">>, nd),
    Then(GainStep(nd),
         PixelFormatBlock(nd))))

\* _configure_optional_parameters (basler_camera.py:86-114)
configure_optional_parameters(nd) ==
    LET e == SafeSet(<<"AcquisitionFrameRateEnable">>, nd)
        rate == IF e.success
                THEN SafeSet(<<"AcquisitionFrameRate", "AcquisitionFrameRateAbs">>,
                             nd).writes
                ELSE <<>>
    IN
    Then([raised |-> FALSE, writes |-> e.writes \o rate],
    Then(Set(<<"Width">>, nd),
    Then(Set(<<"Height">>, nd),
         Set(<<"BalanceWhiteAuto">>, nd))))

\* the acquisition parameters written ahead of the transport layer
ConfigSequence_AcquisitionFirst(t, a, o) == Then(a, Then(t, o))

\* the order of the sections of _configure_camera (basler_camera.py:239-345)
ConfigSequence(t, a, o) == Then(t, Then(a, o))

\* _configure_camera (basler_camera.py:233-348)
configure_camera(nd) ==
    Handled(ConfigSequence(TransportSection(nd), AcquisitionSection(nd),
                           configure_optional_parameters(nd)))

\* ------------------------------------------------------------------- initialize

InitCalls == {"create", "bufhint", "open", "isgrab1", "stop", "isgrab2", "converter",
              "bufread"}

\* the device configured before it is opened
InitSequence_ConfigureFirst(stale1, stale2) ==
    <<"create", "bufhint", "configure", "open", "isgrab1">>
      \o (IF stale1 THEN <<"stop">> ELSE <<>>) \o <<"isgrab2">>
      \o (IF stale2 THEN <<"stop2">> ELSE <<>>) \o <<"converter", "bufread">>

\* The steps of initialize() once a device is selected, in program order
\* (basler_camera.py:192-226): InstantCamera(...) (192), MaxNumBuffer = 15 (197),
\* Open() (200), IsGrabbing() (203) and StopGrabbing() if it says so (205),
\* IsGrabbing() (214) and StopGrabbing() if it says so (215), _configure_camera()
\* (218), the converter (221-223), MaxNumBuffer.Value (226).
InitSequence(stale1, stale2) ==
    <<"create", "bufhint", "open", "isgrab1">>
      \o (IF stale1 THEN <<"stop">> ELSE <<>>) \o <<"isgrab2">>
      \o (IF stale2 THEN <<"stop2">> ELSE <<>>)
      \o <<"configure", "converter", "bufread">>

\* the steps of seq completed when step x raises
Before(seq, x) ==
    LET i == CHOOSE j \in DOMAIN seq : seq[j] = x IN SubSeq(seq, 1, i - 1)

\* camera.StopGrabbing() that returns and leaves the device grabbing
DeviceStop_Skipped(f) == f

\* camera.StopGrabbing() on a device that reports grabbing
\* (basler_camera.py:205, 215)
DeviceStop(f) == [f EXCEPT !.devGrabbing = FALSE]

\* the device every node of which accepts its write
NominalNode == [p \in CfgParams |-> "ok"]

\* _configure_camera (basler_camera.py:233-348) on that device
NominalConfig == configure_camera(NominalNode)

\* initialize (basler_camera.py:153-231).  fail: the first call that raises
\* ("none": no call raises); stale: the device reports grabbing after Open.
\* Every exception ends in the except clause: return False, fields as they are.
initialize(c, n, d, fail, stale) ==
    LET sel == SelectDevice(camera_ip[c], camera_index[c], n, d)
        mode == IF camera_ip[c] # "None" THEN "ip" ELSE "auto"
        old == [camera |-> camera[c], converter |-> converter[c],
                is_grabbing |-> is_grabbing[c], camera_ip |-> camera_ip[c],
                devOpen |-> devOpen[c], devGrabbing |-> devGrabbing[c]]
        lg == [NoInit EXCEPT !.n = n, !.mode = mode, !.selected = sel,
                             !.raisedAt = IF sel = -1 THEN "select" ELSE fail]
        \* line 192: a new InstantCamera replaces self.camera; line 197
        made == [old EXCEPT !.camera = "Dev", !.devOpen = FALSE, !.devGrabbing = FALSE]
        \* the handle replaced at line 192 was open: initialize() does not close it
        lm == [lg EXCEPT !.orphan = old.camera = "Dev" /\ old.devOpen]
        \* line 200
        opened == [made EXCEPT !.devOpen = TRUE, !.devGrabbing = stale]
        lo == [lm EXCEPT !.stale = stale]
        \* lines 203-206
        stopped == IF opened.devGrabbing
                   THEN [DeviceStop(opened) EXCEPT !.is_grabbing = FALSE]
                   ELSE opened
        \* lines 209-210
        named == [stopped EXCEPT !.camera_ip = "ip"]
        \* lines 214-215
        settled == IF named.devGrabbing THEN DeviceStop(named) ELSE named
        ls == [lo EXCEPT !.stops = (IF opened.devGrabbing THEN 1 ELSE 0)
                                   + (IF named.devGrabbing THEN 1 ELSE 0)]
        \* line 218
        cfg == IF devNode = NominalNode THEN NominalConfig
               ELSE configure_camera(devNode)
        lc == [ls EXCEPT !.configured = TRUE, !.grabbingAtCfg = settled.devGrabbing,
                         !.cfgRaised = cfg.raised, !.writes = cfg.writes]
        seq == InitSequence(opened.devGrabbing, named.devGrabbing)
        upto(l, x) == [l EXCEPT !.steps = Before(seq, x)]
        \* lines 221-223
        ready == [settled EXCEPT !.converter = "Conv"]
    IN
    IF sel = -1
    THEN [ret |-> "False", f |-> old, log |-> lg]
    ELSE IF fail = "create"
    THEN [ret |-> "False", f |-> old, log |-> lg]
    \* line 197: the buffer count is set on the new, unopened InstantCamera
    ELSE IF fail = "bufhint"
    THEN [ret |-> "False", f |-> made, log |-> upto(lm, "bufhint")]
    ELSE IF fail = "open"
    THEN [ret |-> "False", f |-> made,
          log |-> upto([lm EXCEPT !.openFailed = TRUE], "open")]
    ELSE IF fail = "isgrab1"
    THEN [ret |-> "False", f |-> opened, log |-> upto(lo, "isgrab1")]
    ELSE IF fail = "stop" /\ stale
    THEN [ret |-> "False", f |-> opened, log |-> upto(lo, "stop")]
    ELSE IF fail = "isgrab2"
    THEN [ret |-> "False", f |-> named, log |-> upto(ls, "isgrab2")]
    \* line 218: what _configure_camera() lets out ends in the except clause
    ELSE IF cfg.raised
    THEN [ret |-> "False", f |-> settled,
          log |-> upto([lc EXCEPT !.raisedAt = "configure"], "configure")]
    ELSE IF fail = "converter"
    THEN [ret |-> "False", f |-> settled, log |-> upto(lc, "converter")]
    \* line 226 reads camera.MaxNumBuffer.Value for the log message
    ELSE IF fail = "bufread"
    THEN [ret |-> "False", f |-> ready, log |-> upto(lc, "bufread")]
    ELSE [ret |-> "True", f |-> ready, log |-> [lc EXCEPT !.steps = seq]]

\* The inputs of initialize that differ in what they make it do: d is read in
\* auto-discovery mode only, fail and stale only once a device is selected, stale
\* only once Open() has returned, and StopGrabbing() is called only if stale.
InitInputs(c, n, d, fail, stale) ==
    LET sel == SelectDevice(camera_ip[c], camera_index[c], n, d) IN
    /\ camera_ip[c] # "None" => d = n
    /\ sel = -1 => fail = "none" /\ ~stale
    /\ fail \in {"create", "bufhint", "open"} => ~stale
    /\ fail = "stop" => stale

Initialize(c) ==
    /\ pc = "idle"
    /\ \E n \in 0..MaxDevices, fail \in InitCalls \cup {"none"}, stale \in BOOLEAN :
       \E d \in {0, n} :
        LET r == initialize(c, n, d, fail, stale) IN
        /\ InitInputs(c, n, d, fail, stale)
        /\ camera' = [camera EXCEPT ![c] = r.f.camera]
        /\ converter' = [converter EXCEPT ![c] = r.f.converter]
        /\ is_grabbing' = [is_grabbing EXCEPT ![c] = r.f.is_grabbing]
        /\ camera_ip' = [camera_ip EXCEPT ![c] = r.f.camera_ip]
        /\ devOpen' = [devOpen EXCEPT ![c] = r.f.devOpen]
        /\ devGrabbing' = [devGrabbing EXCEPT ![c] = r.f.devGrabbing]
        /\ calls' = {}
        /\ result' = r.ret
        /\ initLog' = r.log
    /\ op' = "initialize" /\ cur' = c /\ pre' = Fields(c)
    /\ raised' = FALSE /\ closeExc' = FALSE /\ grabError' = "none"
    /\ trace' = <<>> /\ delays' = <<>> /\ contRun' = FALSE
    /\ grabs' = 0 /\ frameOf' = 0 /\ grabState' = <<>>
    /\ unreleased' = 0
    /\ UNCHANGED <<camera_index, pc, caller, retry_count, max_retries, left_frame,
                   pair, cfReturn>>
    /\ UNCHANGED nonEngineVars

\* ------------------------------------------------------------- specifications

\* __init__ (basler_camera.py:6-12), for the engine fields
EngineInit(idx, ip) ==
    /\ camera_index = idx
    /\ camera_ip = ip
    /\ camera = [c \in Cam |-> "None"]
    /\ converter = [c \in Cam |-> "None"]
    /\ is_grabbing = [c \in Cam |-> FALSE]
    /\ devOpen = [c \in Cam |-> FALSE]
    /\ devGrabbing = [c \in Cam |-> FALSE]
    /\ pc = "idle"
    /\ caller = "client"
    /\ cur = "left"
    /\ retry_count = 0
    /\ max_retries = DefaultMaxRetries
    /\ left_frame = "None"
    /\ op = "__init__"
    /\ pre = [camera |-> "None", converter |-> "None", is_grabbing |-> FALSE]
    /\ result = "None"
    /\ pair = <<>>
    /\ cfReturn = [c \in Cam |-> "None"]
    /\ raised = FALSE
    /\ calls = {}
    /\ grabs = 0
    /\ frameOf = 0
    /\ grabState = <<>>
    /\ unreleased = 0
    /\ initLog = NoInit
    /\ closeExc = FALSE
    /\ grabError = "none"
    /\ trace = <<>>
    /\ delays = <<>>
    /\ contRun = FALSE

\* a device that has every parameter and accepts every write
NominalDevice == devNode = [p \in CfgParams |-> "ok"]

\* no depth estimation is running
DepthIdle ==
    /\ d_est = "none"
    /\ d_left = <<>> /\ d_right = <<>> /\ d_small = <<>> /\ d_shape = <<>>
    /\ d_wide = FALSE
    /\ d_raw = <<>>
    /\ d_disp = <<>>
    /\ d_vis = <<>>

\* no alignment is running
AlignIdle ==
    /\ a_pc = "done"
    /\ a_des = <<FALSE, FALSE>>
    /\ a_knn = <<>>
    /\ a_left = <<>>
    /\ a_right = <<>>
    /\ a_out = <<>>
    /\ a_shift = <<>>
    /\ a_ret = 0

\* no entry script is running
ScriptIdle ==
    /\ script = "none"
    /\ s_pc = "done"
    /\ s_initRet = <<"notcalled", "notcalled">>
    /\ s_closes = <<>>
    /\ s_frames = <<>>
    /\ s_report = {}
    /\ s_stages = <<>>
    /\ s_exc = FALSE
    /\ s_count = 0

\* no call of _safe_set_parameter is in progress
ParamIdle ==
    /\ param_names = <<>>
    /\ retries = 0
    /\ node = <<>>
    /\ alias_i = 1
    /\ attempt = 0
    /\ sp_pc = "done"
    /\ sp_result = <<FALSE, 0>>
    /\ sp_raised = FALSE
    /\ probes = <<>>
    /\ excs = <<>>
    /\ writes = <<>>
    /\ okWrite = 0
    /\ readBack = "none"

\* One engine, BaslerCamera(camera_index=0) (final_test.py:15), driven by a client
\* through its public operations; the other engine object is never used.
Init ==
    /\ EngineInit([c \in Cam |-> IF c = "left" THEN 0 ELSE 1], [c \in Cam |-> "None"])
    /\ ParamIdle
    /\ NominalDevice
    /\ ScriptIdle
    /\ DepthIdle
    /\ AlignIdle

Next ==
    \/ Initialize("left")
    \/ StartGrabbing("left")
    \/ StopGrabbing("left")
    \/ CaptureFrame("left")
    \/ CaptureFrameContinuous("left")
    \/ CaptureAttempt
    \/ Close("left")

Spec == Init /\ [][Next]_vars

\* An engine as the stereo scripts can hold it when they start capturing:
\* "Closed" (initialize() returned False or was never called), "Idle"
\* (initialize() returned True), "Grabbing" (start_grabbing() returned True).
EngineStates == {"Closed", "Idle", "Grabbing"}

\* The two engines BaslerCamera(camera_index=0) and BaslerCamera(camera_index=1)
\* (final_test.py:15-16), each in one of these states, on which one thread calls
\* capture_stereo_frames again and again (test_fixed_capture.py:69-76).
InitStereo ==
    \E st \in [Cam -> EngineStates] :
        /\ camera_index = [c \in Cam |-> IF c = "left" THEN 0 ELSE 1]
        /\ camera_ip = [c \in Cam |-> IF st[c] = "Closed" THEN "None" ELSE "ip"]
        /\ camera = [c \in Cam |-> IF st[c] = "Closed" THEN "None" ELSE "Dev"]
        /\ converter = [c \in Cam |-> IF st[c] = "Closed" THEN "None" ELSE "Conv"]
        /\ is_grabbing = [c \in Cam |-> st[c] = "Grabbing"]
        /\ devOpen = [c \in Cam |-> st[c] # "Closed"]
        /\ devGrabbing = [c \in Cam |-> st[c] = "Grabbing"]
        /\ pc = "idle" /\ caller = "client" /\ cur = "left"
        /\ retry_count = 0 /\ max_retries = DefaultMaxRetries
        /\ left_frame = "None" /\ op = "__init__"
        /\ pre = [camera |-> "None", converter |-> "None", is_grabbing |-> FALSE]
        /\ result = "None" /\ pair = <<>>
        /\ cfReturn = [c \in Cam |-> "None"]
        /\ raised = FALSE /\ calls = {} /\ grabs = 0 /\ frameOf = 0
        /\ grabState = <<>> /\ unreleased = 0 /\ initLog = NoInit /\ closeExc = FALSE
        /\ grabError = "none"
        /\ trace = <<>> /\ delays = <<>> /\ contRun = FALSE
        /\ ParamIdle
        /\ NominalDevice
        /\ ScriptIdle
        /\ DepthIdle
        /\ AlignIdle

NextStereo ==
    \/ CaptureStereo
    \/ CaptureAttempt

SpecStereo == InitStereo /\ [][NextStereo]_vars

\* capture_stereo_frames with the running capture_frame going on: every device
\* call of a pass returns or raises (GrabOne within timeout_ms,
\* basler_camera.py:405), so a pass that has begun ends
SpecStereoLive == InitStereo /\ [][NextStereo]_vars /\ WF_vars(CaptureAttempt)

\* One engine built with any camera_index and with or without camera_ip
\* (basler_camera.py:6-8), on which initialize() and close() are called.
InitAnyEngine ==
    /\ \E i \in (-MaxIndex - 1)..MaxIndex, ip \in {"None", "ip"} :
        EngineInit([c \in Cam |-> i], [c \in Cam |-> ip])
    /\ ParamIdle
    /\ NominalDevice
    /\ ScriptIdle
    /\ DepthIdle
    /\ AlignIdle

NextInit ==
    \/ Initialize("left")
    \/ Close("left")

SpecInit == InitAnyEngine /\ [][NextInit]_vars

\* A new engine BaslerCamera(camera_index=0) on a device of which up to two
\* parameters answer in any way other than "ok", and the one initialize() call
\* the scripts make on it (final_test.py:15-18).
InitConfig ==
    /\ EngineInit([c \in Cam |-> IF c = "left" THEN 0 ELSE 1], [c \in Cam |-> "None"])
    /\ ParamIdle
    /\ ScriptIdle
    /\ DepthIdle
    /\ AlignIdle
    /\ \E p, q \in CfgParams, kp, kq \in NodeOutcomes :
        devNode = [x \in CfgParams |-> IF x = p THEN kp ELSE IF x = q THEN kq ELSE "ok"]

NextConfig == op = "__init__" /\ Initialize("left")

SpecConfig == InitConfig /\ [][NextConfig]_vars

\* ---------------------------------------------------------- _safe_set_parameter

NodeStates == {"absent", "RO", "RW", "WO"}
SetEvents == {"none", "probe", "SetValue", "GetValue", "mismatch"}

\* the writability test also passing read-only nodes
IsWritable_ReadOnlyToo(access_mode) ==
    access_mode = "RW" \/ access_mode = "WO" \/ access_mode = "RO"

\* is_writable (basler_camera.py:47)
IsWritable(access_mode) == access_mode = "RW" \/ access_mode = "WO"

\* a failed or differing read-back treated like a failed write: retried
SetAttempt_StrictReadBack(a, att, rt, e) ==
    LET failed == IF att < rt - 1 THEN "continue" ELSE "break"
    IN
    IF e = "probe"
    THEN [kind |-> failed, exc |-> TRUE, wrote |-> FALSE, ok |-> FALSE,
          raised |-> FALSE]
    ELSE IF node[a] \notin {"RW", "WO"}
    THEN [kind |-> "break", exc |-> FALSE, wrote |-> FALSE, ok |-> FALSE,
          raised |-> FALSE]
    ELSE IF e = "SetValue"
    THEN [kind |-> failed, exc |-> TRUE, wrote |-> TRUE, ok |-> FALSE,
          raised |-> FALSE]
    ELSE IF e \in {"GetValue", "mismatch"}
    THEN [kind |-> failed, exc |-> TRUE, wrote |-> TRUE, ok |-> TRUE,
          raised |-> FALSE]
    ELSE [kind |-> "return", exc |-> FALSE, wrote |-> TRUE, ok |-> TRUE,
          raised |-> FALSE]

\* a node found absent or not writable retried like a transient failure
SetAttempt_RetryTerminal(a, att, rt, e) ==
    LET failed == IF att < rt - 1 THEN "continue" ELSE "break"
    IN
    IF e = "probe"
    THEN [kind |-> failed, exc |-> TRUE, wrote |-> FALSE, ok |-> FALSE,
          raised |-> FALSE]
    ELSE IF node[a] \notin {"RW", "WO"}
    THEN [kind |-> failed, exc |-> FALSE, wrote |-> FALSE, ok |-> FALSE,
          raised |-> FALSE]
    ELSE IF e = "SetValue"
    THEN [kind |-> failed, exc |-> TRUE, wrote |-> TRUE, ok |-> FALSE,
          raised |-> FALSE]
    ELSE [kind |-> "return", exc |-> FALSE, wrote |-> TRUE, ok |-> TRUE,
          raised |-> FALSE]

\* an exception of the read-back left to the except clause of line 75: retried
SetAttempt_ReadBackFatal(a, att, rt, e) ==
    LET failed == IF att < rt - 1 THEN "continue" ELSE "break"
    IN
    IF e = "probe"
    THEN [kind |-> failed, exc |-> TRUE, wrote |-> FALSE, ok |-> FALSE,
          raised |-> FALSE]
    ELSE IF node[a] \notin {"RW", "WO"}
    THEN [kind |-> "break", exc |-> FALSE, wrote |-> FALSE, ok |-> FALSE,
          raised |-> FALSE]
    ELSE IF e = "SetValue"
    THEN [kind |-> failed, exc |-> TRUE, wrote |-> TRUE, ok |-> FALSE,
          raised |-> FALSE]
    ELSE IF e = "GetValue"
    THEN [kind |-> failed, exc |-> TRUE, wrote |-> TRUE, ok |-> TRUE,
          raised |-> FALSE]
    ELSE [kind |-> "return", exc |-> FALSE, wrote |-> TRUE, ok |-> TRUE,
          raised |-> FALSE]

\* a read-back that returns another value ends the attempts on the alias
SetAttempt_MismatchFails(a, att, rt, e) ==
    LET failed == IF att < rt - 1 THEN "continue" ELSE "break"
    IN
    IF e = "probe"
    THEN [kind |-> failed, exc |-> TRUE, wrote |-> FALSE, ok |-> FALSE,
          raised |-> FALSE]
    ELSE IF node[a] \notin {"RW", "WO"}
    THEN [kind |-> "break", exc |-> FALSE, wrote |-> FALSE, ok |-> FALSE,
          raised |-> FALSE]
    ELSE IF e = "SetValue"
    THEN [kind |-> failed, exc |-> TRUE, wrote |-> TRUE, ok |-> FALSE,
          raised |-> FALSE]
    ELSE IF e = "mismatch"
    THEN [kind |-> "break", exc |-> FALSE, wrote |-> TRUE, ok |-> TRUE,
          raised |-> FALSE]
    ELSE [kind |-> "return", exc |-> FALSE, wrote |-> TRUE, ok |-> TRUE,
          raised |-> FALSE]

\* One pass through the body of the inner for loop (basler_camera.py:39-82) for
\* alias a.  e: what goes wrong: "probe" (GetNodeMap, GetNode or GetAccessMode
\* raises, as they do when self.camera is None), "SetValue" (the write raises),
\* "GetValue" (the read-back raises), "mismatch" (the read-back returns another
\* value), "none".  kind: "return" (True, a), "break", or "continue"; raised: an
\* exception left the try statement (the except clause at line 75 catches all).
SetAttempt(a, att, rt, e) ==
    LET failed == IF att < rt - 1 THEN "continue" ELSE "break"    \* lines 75-82
    IN
    IF e = "probe"
    THEN [kind |-> failed, exc |-> TRUE, wrote |-> FALSE, ok |-> FALSE,
          raised |-> FALSE]
    ELSE IF node[a] = "absent"                                    \* lines 70-73
    THEN [kind |-> "break", exc |-> FALSE, wrote |-> FALSE, ok |-> FALSE,
          raised |-> FALSE]
    ELSE IF ~IsWritable(node[a])                                  \* lines 66-69
    THEN [kind |-> "break", exc |-> FALSE, wrote |-> FALSE, ok |-> FALSE,
          raised |-> FALSE]
    ELSE IF e = "SetValue"                                        \* line 51 raises
    THEN [kind |-> failed, exc |-> TRUE, wrote |-> TRUE, ok |-> FALSE,
          raised |-> FALSE]
    \* lines 54-65: read-back equal (59), raising (60-62) or different (64-65)
    ELSE [kind |-> "return", exc |-> FALSE, wrote |-> TRUE, ok |-> TRUE,
          raised |-> FALSE]

\* What the read-back of lines 54-65 met in a pass for alias a: reached only
\* after a SetValue that completed (line 51); param.GetValue() raises (caught
\* by the bare except of lines 60-62), or returns the value written or another.
ReadBack(a, e) ==
    IF e = "probe" \/ node[a] = "absent" \/ ~IsWritable(node[a]) \/ e = "SetValue"
    THEN "none"
    ELSE IF e = "GetValue" THEN "raised"
    ELSE IF e = "mismatch" THEN "differs"
    ELSE "equal"

\* One iteration of for attempt in range(retries), inside for param_name in
\* param_names (basler_camera.py:37-38), and the return at line 84 when the
\* outer loop is exhausted.
SafeSetStep ==
    /\ sp_pc = "run"
    /\ IF alias_i > Len(param_names)
       THEN /\ sp_pc' = "done"                                    \* line 84
            /\ sp_result' = <<FALSE, 0>>
            /\ UNCHANGED <<alias_i, attempt, probes, excs, writes, okWrite, sp_raised,
                           readBack>>
       ELSE IF attempt >= retries                                 \* range(retries) is used up
       THEN /\ alias_i' = alias_i + 1
            /\ attempt' = 0
            /\ UNCHANGED <<sp_pc, sp_result, probes, excs, writes, okWrite, sp_raised,
                           readBack>>
       ELSE \E e \in SetEvents :
            LET a == param_names[alias_i]
                r == SetAttempt(a, attempt, retries, e)
            IN
            /\ probes' = [probes EXCEPT ![a] = @ + 1]
            /\ excs' = [excs EXCEPT ![a] = IF r.exc THEN @ + 1 ELSE @]
            /\ writes' = [writes EXCEPT ![a] = IF r.wrote THEN @ + 1 ELSE @]
            /\ okWrite' = IF r.ok /\ okWrite = 0 THEN a ELSE okWrite
            /\ sp_raised' = r.raised
            /\ readBack' = ReadBack(a, e)
            /\ IF r.raised
               THEN /\ sp_pc' = "done"
                    /\ UNCHANGED <<alias_i, attempt, sp_result>>
               ELSE IF r.kind = "return"
               THEN /\ sp_pc' = "done"
                    /\ sp_result' = <<TRUE, a>>
                    /\ UNCHANGED <<alias_i, attempt>>
               ELSE IF r.kind = "break"
               THEN /\ alias_i' = alias_i + 1
                    /\ attempt' = 0
                    /\ UNCHANGED <<sp_pc, sp_result>>
               ELSE /\ attempt' = attempt + 1
                    /\ UNCHANGED <<alias_i, sp_pc, sp_result>>
    /\ UNCHANGED <<param_names, retries, node>>
    /\ UNCHANGED nonParamVars

\* _safe_set_parameter(param_names, value, retries=...) has just been called with
\* a list of 1..MaxAliases aliases (a single string is wrapped, lines 34-35) on a
\* device whose node map holds any combination of absent, read-only and writable
\* nodes.
InitParam ==
    /\ EngineInit([c \in Cam |-> 0], [c \in Cam |-> "None"])
    /\ NominalDevice
    /\ ScriptIdle
    /\ DepthIdle
    /\ AlignIdle
    /\ \E k \in 1..MaxAliases :
        /\ param_names = [i \in 1..k |-> i]
        /\ node \in [1..k -> NodeStates]
        /\ probes = [i \in 1..k |-> 0]
        /\ excs = [i \in 1..k |-> 0]
        /\ writes = [i \in 1..k |-> 0]
    /\ retries \in 0..MaxRetries
    /\ alias_i = 1
    /\ attempt = 0
    /\ sp_pc = "run"
    /\ sp_result = <<FALSE, 0>>
    /\ sp_raised = FALSE
    /\ okWrite = 0
    /\ readBack = "none"

NextParam == SafeSetStep

\* the calling thread keeps running the loops until the call returns
SpecParam == InitParam /\ [][NextParam]_vars /\ WF_vars(NextParam)

\* ------------------------------------------------------------- entry scripts

Scripts == {"main", "main_headless", "main_enhanced", "final_test",
            "example_camera_usage", "test_both_cameras"}

\* the scripts that process the captured pair
Pipelines == {"main", "main_headless", "main_enhanced"}

\* What the initialization stage of a script did, given what the two
\* initialize() calls return: ret (the results, "notcalled" for a call not
\* made), closes (the close() calls made before the script leaves the stage,
\* those of a finally clause included), go (the script goes on to capture).
Ret(b) == IF b THEN "True" ELSE "False"
InitOutcome(r1, r2, cl, go) == [ret |-> <<r1, r2>>, closes |-> cl, go |-> go]

\* main.py:25-32
main_init(r1, r2) ==
    IF ~r1 THEN InitOutcome("False", "notcalled", <<>>, FALSE)
    ELSE IF ~r2 THEN InitOutcome("True", "False", <<1>>, FALSE)
    ELSE InitOutcome("True", "True", <<>>, TRUE)

\* main_headless.py:47-54
main_headless_init(r1, r2) ==
    IF ~r1 THEN InitOutcome("False", "notcalled", <<>>, FALSE)
    ELSE IF ~r2 THEN InitOutcome("True", "False", <<1>>, FALSE)
    ELSE InitOutcome("True", "True", <<>>, TRUE)

\* main_enhanced.py:47-49: one test, "or" short-circuits, no close() on return
main_enhanced_init(r1, r2) ==
    IF ~r1 THEN InitOutcome("False", "notcalled", <<>>, FALSE)
    ELSE IF ~r2 THEN InitOutcome("True", "False", <<>>, FALSE)
    ELSE InitOutcome("True", "True", <<>>, TRUE)

\* final_test.py:18-23: both calls are made, then exit(1) with no close()
final_test_init(r1, r2) == InitOutcome(Ret(r1), Ret(r2), <<>>, r1 /\ r2)

\* example_camera_usage.py:55-66 and 146-150: the returns are inside the try
\* whose finally clause closes both cameras
example_init(r1, r2) ==
    IF ~r1 THEN InitOutcome("False", "notcalled", <<1, 2>>, FALSE)
    ELSE IF ~r2 THEN InitOutcome("True", "False", <<1, 1, 2>>, FALSE)
    ELSE InitOutcome("True", "True", <<>>, TRUE)

\* test_both_cameras.py:18-30
test_both_init(r1, r2) ==
    IF ~r1 THEN InitOutcome("False", "notcalled", <<>>, FALSE)
    ELSE IF ~r2 THEN InitOutcome("True", "False", <<1>>, FALSE)
    ELSE InitOutcome("True", "True", <<>>, TRUE)

InitStage(s, r1, r2) ==
    CASE s = "main" -> main_init(r1, r2)
      [] s = "main_headless" -> main_headless_init(r1, r2)
      [] s = "main_enhanced" -> main_enhanced_init(r1, r2)
      [] s = "final_test" -> final_test_init(r1, r2)
      [] s = "example_camera_usage" -> example_init(r1, r2)
      [] s = "test_both_cameras" -> test_both_init(r1, r2)

\* the pipeline stopping only when both frames are absent
PairFailed_BothOnly(f1, f2) == f1 = "None" /\ f2 = "None"

\* frame1 is None or frame2 is None (main.py:41, main_headless.py:63,
\* main_enhanced.py:58)
PairFailed(f1, f2) == f1 = "None" \/ f2 = "None"

\* the if / elif chain of example_camera_usage.py:100-131
example_report(f1, f2) ==
    IF f1 # "None" /\ f2 # "None" THEN {"captured"}
    ELSE IF f1 = "None" THEN {"left_failed"}
    ELSE IF f2 = "None" THEN {"right_failed"}
    ELSE {"both_failed"}

\* final_test.py:31-36
final_test_report(f1, f2) ==
    IF f1 # "None" /\ f2 # "None" THEN {"success"}
    ELSE {"failed", IF f1 # "None" THEN "left=True" ELSE "left=False",
                    IF f2 # "None" THEN "right=True" ELSE "right=False"}

\* test_both_cameras.py:36-58
test_both_report(f1, f2) ==
    {IF f1 = "None" THEN "camera1_failed" ELSE "camera1_captured",
     IF f2 = "None" THEN "camera2_failed" ELSE "camera2_captured",
     IF f1 # "None" /\ f2 # "None" THEN "success" ELSE "partial_success"}

\* main.py:41-47, main_headless.py:63-69, main_enhanced.py:58-64
pipeline_report(f1, f2) ==
    IF PairFailed(f1, f2) THEN {"failed_one_or_both"} ELSE {"captured"}

Report(s, f1, f2) ==
    CASE s \in Pipelines -> pipeline_report(f1, f2)
      [] s = "final_test" -> final_test_report(f1, f2)
      [] s = "example_camera_usage" -> example_report(f1, f2)
      [] s = "test_both_cameras" -> test_both_report(f1, f2)

\* the processing calls of a pipeline script, in order (main.py:56-61,
\* main_headless.py:73-85, main_enhanced.py:72-85)
Pipeline(s) ==
    CASE s = "main" -> <<"preprocess_image", "estimate_depth">>
      [] s = "main_headless" ->
            <<"preprocess_image", "estimate_depth", "estimate_depth_sgbm">>
      [] s = "main_enhanced" ->
            <<"align_stereo_pair_horizontally", "preprocess_image",
              "estimate_depth_sgbm">>

\* python script.py: the script starts (main.py:9-21)
ScriptInitialize ==
    /\ s_pc = "start"
    /\ \E r1, r2 \in BOOLEAN :
        LET o == InitStage(script, r1, r2) IN
        /\ s_initRet' = o.ret
        /\ s_closes' = o.closes
        /\ s_pc' = IF o.go THEN "ready" ELSE "done"
    /\ UNCHANGED <<script, s_frames, s_report, s_stages, s_exc, s_count>>
    /\ UNCHANGED nonScriptVars

\* the one capture of a script (main.py:39, final_test.py:29,
\* test_both_cameras.py:35-47) and what it prints about it
ScriptCapture ==
    /\ s_pc = "ready"
    /\ script # "example_camera_usage"
    /\ \E f1, f2 \in {"None", "frame"} :
        /\ s_frames' = <<f1, f2>>
        /\ s_report' = Report(script, f1, f2)
    /\ s_pc' = "captured"
    /\ UNCHANGED <<script, s_initRet, s_closes, s_stages, s_exc, s_count>>
    /\ UNCHANGED nonScriptVars

\* one capture of the loop of example_camera_usage.py (lines 94-131)
ExampleIteration ==
    /\ s_pc = "ready"
    /\ script = "example_camera_usage"
    /\ s_count < MaxPairs
    /\ \E f1, f2 \in {"None", "frame"} :
        /\ s_frames' = <<f1, f2>>
        /\ s_report' = Report(script, f1, f2)
        /\ s_count' = IF f1 # "None" /\ f2 # "None" THEN s_count + 1 ELSE s_count
    /\ UNCHANGED <<script, s_pc, s_initRet, s_closes, s_stages, s_exc>>
    /\ UNCHANGED nonScriptVars

\* main.py:41-88, main_headless.py:63-115, main_enhanced.py:58-115; k: the
\* processing call that raises (0: none), caught at main.py:90
ScriptProcess ==
    /\ s_pc = "captured"
    /\ script \in Pipelines
    /\ \E k \in 0..Len(Pipeline(script)) :
        IF PairFailed(s_frames[1], s_frames[2])
        THEN k = 0 /\ s_stages' = <<>> /\ s_exc' = FALSE
        ELSE /\ s_stages' = IF k = 0 THEN Pipeline(script)
                                     ELSE SubSeq(Pipeline(script), 1, k)
             /\ s_exc' = (k # 0)
    /\ s_pc' = "cleanup"
    /\ UNCHANGED <<script, s_initRet, s_closes, s_frames, s_report, s_count>>
    /\ UNCHANGED nonScriptVars

\* How control leaves the capture and processing part of a script: "return"
\* (the early return of main.py:41-43, main_headless.py:63-65), "exception" (a
\* processing call raised, main.py:90), "normal".
ExitPath ==
    IF script \in Pipelines /\ s_frames # <<>> /\ PairFailed(s_frames[1], s_frames[2])
    THEN "return"
    ELSE IF s_exc THEN "exception"
    ELSE "normal"

\* cleanup placed after the try statement: a return inside it skips the close calls
Cleanup_AfterTry(exit) == IF exit = "return" THEN <<>> ELSE <<1, 2>>

\* camera1.close(); camera2.close() in the finally clause (main.py:95-99,
\* main_headless.py:120-124), run however the try block is left, and at the end
\* of the scripts that have no try statement
Cleanup(exit) == <<1, 2>>

\* main.py:95-100, final_test.py:39-40, test_both_cameras.py:51-52,
\* example_camera_usage.py:143-152 (after 'q' or Ctrl-C)
ScriptCleanup ==
    /\ \/ s_pc = "cleanup"
       \/ s_pc = "captured" /\ script \in {"final_test", "test_both_cameras"}
       \/ s_pc = "ready" /\ script = "example_camera_usage"
    /\ s_closes' = s_closes \o Cleanup(ExitPath)
    /\ s_pc' = "done"
    /\ UNCHANGED <<script, s_initRet, s_frames, s_report, s_stages, s_exc, s_count>>
    /\ UNCHANGED nonScriptVars

\* one run of any of the entry scripts
InitScripts ==
    /\ EngineInit([c \in Cam |-> IF c = "left" THEN 0 ELSE 1], [c \in Cam |-> "None"])
    /\ ParamIdle
    /\ NominalDevice
    /\ DepthIdle
    /\ AlignIdle
    /\ script \in Scripts
    /\ s_pc = "start"
    /\ s_initRet = <<"notcalled", "notcalled">>
    /\ s_closes = <<>>
    /\ s_frames = <<>>
    /\ s_report = {}
    /\ s_stages = <<>>
    /\ s_exc = FALSE
    /\ s_count = 0

NextScripts ==
    \/ ScriptInitialize
    \/ ScriptCapture
    \/ ExampleIteration
    \/ ScriptProcess
    \/ ScriptCleanup

SpecScripts == InitScripts /\ [][NextScripts]_vars

\* ---------------------------------------------------------- depth estimation

\* num_disparities (depth_estimation.py:48, 162)
NumDisparities == 96

\* one pixel is 16 units of the matcher's fixed-point output
\* (depth_estimation.py:83, 196)
FixedPoint == 16

\* What the matcher returns for a pixel: -16 (no match: (minDisparity - 1) * 16),
\* 0, disparities of 25, 48 and 50 pixels, and numDisparities * 16, the value
\* line 80 tests for.
RawValues == {-16, 0, 400, 768, 800, 1536}

\* cvRound(n / 4): the nearest integer, a tie going to the even one
RoundQuarter(n) ==
    LET q == n \div 4
        r == n % 4
    IN IF r < 2 THEN q
       ELSE IF r > 2 THEN q + 1
       ELSE IF q % 2 = 0 THEN q ELSE q + 1

\* cv2.resize(disparity, (w, h)) of a 16-bit row to twice its width, bilinear
\* (depth_estimation.py:75, 192): the output pixel x (0-based) reads the source
\* at (x + 0.5) / 2 - 0.5, clamped at the borders, and the result is rounded
\* back to an integer.
Resize(row) ==
    LET n == Len(row)
        src(i) == IF i < 1 THEN row[1] ELSE IF i > n THEN row[n] ELSE row[i]
    IN [x \in 1..(2 * n) |->
          LET i == (x + 1) \div 2 IN
          IF x % 2 = 1
          THEN RoundQuarter(src(i - 1) + 3 * src(i))
          ELSE RoundQuarter(3 * src(i) + src(i + 1))]

\* disparity / scale_factor with scale_factor = 0.5 (depth_estimation.py:76, 193)
Unscale(row) == [x \in DOMAIN row |-> 2 * row[x]]

\* depth_estimation.py:73-76, 190-193: the grid is resized first, the values
\* are divided by the scale factor after
Rescale(row, wide) == IF wide THEN Unscale(Resize(row)) ELSE row

\* depth_estimation.py:79-80 (on the fixed-point values, before line 83)
MarkInvalidBM(row) ==
    [x \in DOMAIN row |->
        IF row[x] <= 0 THEN 0
        ELSE IF row[x] = NumDisparities * FixedPoint THEN 0
        ELSE row[x]]

\* depth_estimation.py:196-198 (on the values in pixels, after line 196)
MarkInvalidSGBM(row) ==
    [x \in DOMAIN row |->
        IF row[x] <= 0 THEN 0
        ELSE IF row[x] >= NumDisparities * FixedPoint THEN 0
        ELSE row[x]]

MinOf(S) == CHOOSE m \in S : \A v \in S : m <= v
MaxOf(S) == CHOOSE m \in S : \A v \in S : m >= v

\* the minimum and maximum taken over every pixel, the invalid ones included
NormalizeRange_AllPixels(row) ==
    LET all == {row[x] : x \in DOMAIN row} IN
    IF all = {} THEN <<0, 0>> ELSE <<MinOf(all), MaxOf(all)>>

\* np.nanmin / np.nanmax over the valid pixels (depth_estimation.py:93-99,
\* 209-214); <<0, 0>> when no pixel is valid
NormalizeRange(row) ==
    LET valid == {row[x] : x \in {y \in DOMAIN row : row[y] > 0}} IN
    IF valid = {} THEN <<0, 0>> ELSE <<MinOf(valid), MaxOf(valid)>>

\* depth_estimation.py:91-109 and 124, 207-223 and 235: the quotient is a
\* float32 in 0..255 whose integer part is that of the exact quotient, and
\* astype(np.uint8) drops the fraction
Normalize(row) ==
    LET mm == NormalizeRange(row)
        min_disp == mm[1]
        max_disp == mm[2]
    IN [x \in DOMAIN row |->
          IF row[x] <= 0 THEN 0
          ELSE IF max_disp > min_disp
          THEN (255 * (row[x] - min_disp)) \div (max_disp - min_disp)
          ELSE 0]

\* the width above which the estimators work on half-size images
\* (depth_estimation.py:32, 148)
WideThreshold == 2000

\* images of exactly the threshold width downsampled as well
Downsampled_Inclusive(w) == w >= WideThreshold

\* if w > 2000 (depth_estimation.py:32, 148)
Downsampled(w) == w > WideThreshold

\* int(n * scale_factor) with scale_factor = 0.5 (depth_estimation.py:34, 150)
Half(n) == n \div 2

\* depth_estimation.py:31-43 and 72-76 (145-156 and 188-193): the sizes of the
\* two images handed to stereo.compute, which raises unless they are equal, and
\* the shape of the disparity map after line 76: that of the matcher's output,
\* or (h, w) after cv2.resize(disparity, (w, h)).
Sizing(left, right) ==
    LET w == left[1]
        h == left[2]
        wide == Downsampled(w)
        small == <<Half(w), Half(h)>>
        fed == IF wide THEN <<small, small>> ELSE <<left, right>>
    IN [wide |-> wide, small |-> fed, raised |-> fed[1] # fed[2],
        shape |-> IF wide THEN <<h, w>> ELSE <<fed[1][2], fed[1][1]>>]

\* estimate_depth (depth_estimation.py:4-124) applied to the output of the matcher
EstimateDepth ==
    /\ d_est = "none"
    /\ d_raw # <<>>
    /\ LET z == Sizing(d_left, d_right) IN
        /\ d_wide' = z.wide
        /\ d_small' = z.small
        /\ IF z.raised
           THEN /\ d_est' = "raised"
                /\ d_disp' = <<>> /\ d_vis' = <<>> /\ d_shape' = <<>>
           ELSE /\ d_est' = "bm"
                /\ d_disp' = MarkInvalidBM(Rescale(d_raw, z.wide))
                /\ d_vis' = Normalize(d_disp')
                /\ d_shape' = z.shape
    /\ UNCHANGED <<d_left, d_right, d_raw>>
    /\ UNCHANGED nonDepthVars

\* estimate_depth_sgbm (depth_estimation.py:126-235)
EstimateDepthSGBM ==
    /\ d_est = "none"
    /\ d_raw # <<>>
    /\ LET z == Sizing(d_left, d_right) IN
        /\ d_wide' = z.wide
        /\ d_small' = z.small
        /\ IF z.raised
           THEN /\ d_est' = "raised"
                /\ d_disp' = <<>> /\ d_vis' = <<>> /\ d_shape' = <<>>
           ELSE /\ d_est' = "sgbm"
                /\ d_disp' = MarkInvalidSGBM(Rescale(d_raw, z.wide))
                /\ d_vis' = Normalize(d_disp')
                /\ d_shape' = z.shape
    /\ UNCHANGED <<d_left, d_right, d_raw>>
    /\ UNCHANGED nonDepthVars

\* A pair of equally sized images, 1920 x 1080 or 4024 x 3036 (the cameras of
\* the scripts), on which the matcher returns any row of disparities; uniform
\* columns, so that a row stands for the image.
InitDepth ==
    /\ EngineInit([c \in Cam |-> IF c = "left" THEN 0 ELSE 1], [c \in Cam |-> "None"])
    /\ ParamIdle
    /\ NominalDevice
    /\ ScriptIdle
    /\ AlignIdle
    /\ d_est = "none"
    /\ d_left \in {<<1920, 1080>>, <<4024, 3036>>}
    /\ d_right = d_left
    /\ d_small = <<>> /\ d_shape = <<>>
    /\ d_wide = FALSE
    /\ d_raw \in [1..RowLen -> RawValues]
    /\ d_disp = <<>>
    /\ d_vis = <<>>

NextDepth ==
    \/ EstimateDepth
    \/ EstimateDepthSGBM

SpecDepth == InitDepth /\ [][NextDepth]_vars

\* image widths around the threshold and image heights, odd ones included
Widths == {1999, 2000, 2001, 4024}
Heights == {1080, 1501, 3036}

\* Two images of any of these sizes, equal or not, on which the matcher returns
\* a row of one valid disparity or a row of valid and invalid ones.
InitDepthSize ==
    /\ EngineInit([c \in Cam |-> IF c = "left" THEN 0 ELSE 1], [c \in Cam |-> "None"])
    /\ ParamIdle
    /\ NominalDevice
    /\ ScriptIdle
    /\ AlignIdle
    /\ d_est = "none"
    /\ d_left \in Widths \X Heights
    /\ d_right \in Widths \X Heights
    /\ d_small = <<>> /\ d_shape = <<>>
    /\ d_wide = FALSE
    /\ d_raw \in {[x \in 1..RowLen |-> 400],
                  [x \in 1..RowLen |-> IF x = 1 THEN -16 ELSE 400 * x]}
    /\ d_disp = <<>>
    /\ d_vis = <<>>

SpecDepthSize == InitDepthSize /\ [][NextDepth]_vars

\* ------------------------------------------------------- stereo/rectification.py

\* align_stereo_pair_horizontally (rectification.py:78-142).  The SIFT detector
\* and the brute-force matcher are the environment: they yield descriptors or
\* None for each image and a list of match pairs.  A match pair is followed by
\* its length (knnMatch returns one or two neighbours), the distances m.distance
\* and n.distance, and dy = pts2.y - pts1.y of the matched keypoints in pixels.
MinGoodMatches == 10
ShiftThreshold == 2
OffsetValues == {-3, -2, 2, 3}
MatchKinds ==
    {[len |-> 2, m |-> 6, n |-> 10, dy |-> o] : o \in OffsetValues}
      \cup {[len |-> 2, m |-> 7, n |-> 10, dy |-> 0], [len |-> 1, m |-> 6, n |-> 0, dy |-> 0]}

\* m.distance < 0.7 * n.distance (line 112), distances in whole units
PassesRatio(m, n) == 10 * m < 7 * n

RECURSIVE CountOver(_, _)
CountOver(knn, kinds) ==
    IF kinds = {} THEN 0
    ELSE LET k == CHOOSE x \in kinds : TRUE
         IN knn[k] + CountOver(knn, kinds \ {k})

\* the ratio test of lines 107-113: the kinds of pair whose m is appended
GoodKinds == {k \in MatchKinds : k.len = 2 /\ PassesRatio(k.m, k.n)}

\* len(good_matches)
GoodCount(knn) == CountOver(knn, GoodKinds)

\* the i-th smallest of y_offsets (line 125), i in 1..GoodCount(knn)
NthOffset(knn, i) ==
    LET upto(o) == CountOver(knn, {k \in GoodKinds : k.dy <= o})
        below(o) == CountOver(knn, {k \in GoodKinds : k.dy < o})
    IN CHOOSE o \in OffsetValues : below(o) < i /\ i <= upto(o)

\* twice np.median(y_offsets) (line 126): the middle value, or the mean of the
\* two middle values of an even number of offsets
Median2(knn) ==
    LET n == GoodCount(knn) IN
    IF n % 2 = 1 THEN 2 * NthOffset(knn, (n + 1) \div 2)
    ELSE NthOffset(knn, n \div 2) + NthOffset(knn, n \div 2 + 1)

Abs(x) == IF x < 0 THEN -x ELSE x

\* the matching is not trusted when exactly MinGoodMatches pairs pass either
TooFewMatches_Inclusive(n) == n <= MinGoodMatches

\* len(good_matches) < 10 (line 115)
TooFewMatches(n) == n < MinGoodMatches

\* an offset of exactly the threshold shifted as well
NeedsShift_Inclusive(med2) == Abs(med2) >= 2 * ShiftThreshold

\* abs(median_y_offset) > 2 (line 132), on twice the median
NeedsShift(med2) == Abs(med2) > 2 * ShiftThreshold

\* cv2.warpAffine(img, M, (w, h)) with M = [[1, 0, 0], [0, 1, dy]] (lines 134-135)
\* on one column, dy2 = 2*dy: row y of the result is the image at row y - dy,
\* interpolated linearly between two rows when dy is a half, 0 outside the image
\* (the default constant border).
Translate(img, dy2) ==
    LET at(r) == IF r \in 1..Len(img) THEN img[r] ELSE 0
        px(y) == LET p2 == 2 * y - dy2 IN
                 IF p2 % 2 = 0 THEN at(p2 \div 2)
                 ELSE (at((p2 - 1) \div 2) + at((p2 - 1) \div 2 + 1)) \div 2
    IN [y \in 1..Len(img) |-> px(y)]

\* the body of align_stereo_pair_horizontally after SIFT and knnMatch
align_stereo_pair_horizontally(left, right, des, knn) ==
    IF ~des[1] \/ ~des[2]                                          \* lines 100-101
    THEN [out |-> <<left, right>>, shift |-> <<>>, ret |-> 101]
    ELSE IF TooFewMatches(GoodCount(knn))                          \* lines 115-118
    THEN [out |-> <<left, right>>, shift |-> <<>>, ret |-> 118]
    ELSE IF NeedsShift(Median2(knn))                               \* lines 132-140
    THEN [out |-> <<left, Translate(right, -Median2(knn))>>,
          shift |-> <<0, -Median2(knn)>>, ret |-> 140]
    ELSE [out |-> <<left, right>>, shift |-> <<>>, ret |-> 142]    \* lines 141-142

AlignStereoPair ==
    /\ a_pc = "start"
    /\ LET r == align_stereo_pair_horizontally(a_left, a_right, a_des, a_knn) IN
        /\ a_out' = r.out
        /\ a_shift' = r.shift
        /\ a_ret' = r.ret
    /\ a_pc' = "done"
    /\ UNCHANGED <<a_des, a_knn, a_left, a_right>>
    /\ UNCHANGED nonAlignVars

\* align_stereo_pair_horizontally has just been called on two images of
\* different content; SIFT found descriptors on neither, one or both of them,
\* and with descriptors on both the matcher returned up to MaxMatches pairs of
\* each offset that pass the ratio test, and possibly a pair that fails it and
\* a pair with a single neighbour.
InitAlign ==
    /\ EngineInit([c \in Cam |-> IF c = "left" THEN 0 ELSE 1], [c \in Cam |-> "None"])
    /\ ParamIdle
    /\ NominalDevice
    /\ ScriptIdle
    /\ DepthIdle
    /\ a_pc = "start"
    /\ a_left = [y \in 1..ImgH |-> 20 * y + 10]
    /\ a_right = [y \in 1..ImgH |-> 20 * y]
    /\ a_out = <<>> /\ a_shift = <<>> /\ a_ret = 0
    /\ a_des \in BOOLEAN \X BOOLEAN
    /\ \E g \in [OffsetValues -> 0..MaxMatches], rej \in 0..1, single \in 0..1 :
        /\ g[-3] + g[-2] + g[2] + g[3] <= MaxMatches
        /\ ~(a_des[1] /\ a_des[2]) => g = [o \in OffsetValues |-> 0] /\ rej = 0 /\ single = 0
        /\ a_knn = [k \in MatchKinds |->
                      IF k \in GoodKinds THEN g[k.dy]
                      ELSE IF k.len = 2 THEN rej ELSE single]

NextAlign == AlignStereoPair

SpecAlign == InitAlign /\ [][NextAlign]_vars

\* ------------------------------------------------------------------ properties

Returned(name) == pc = "idle" /\ op = name
Closed(c) == camera[c] = "None" /\ converter[c] = "None" /\ ~is_grabbing[c]

\* C1: one call of capture_frame issues at most max_retries + 1 GrabOne calls;
\* when the engine is open and every pass of the loop issued a grab that failed,
\* it issues exactly max_retries + 1 of them and returns None.
C1_BoundedGrabs ==
    /\ grabs <= max_retries + 1
    /\ grabs <= retry_count + 1
    /\ (Returned("capture_frame") /\ camera[cur] # "None" /\ devOpen[cur]
          /\ result = "None" /\ grabs = retry_count)
       => grabs = max_retries + 1
    /\ (Returned("capture_frame") /\ grabs = max_retries + 1 /\ frameOf = 0)
       => result = "None"

C1_Witness ==
    /\ Returned("capture_frame")
    /\ max_retries = 2
    /\ grabs = 3
    /\ result = "None"

\* C2: whenever capture_frame issues GrabOne, is_grabbing is False and the device
\* reports not grabbing, whatever the stop request did.
C2_NotGrabbingAtGrabOne ==
    grabState # <<>> => grabState = <<FALSE, FALSE>>

\* C3: every grab result obtained by capture_frame or capture_frame_continuous
\* has been released before the next grab attempt and when the operation returns.
C3_AllReleased ==
    op \in {"capture_frame", "capture_frame_continuous"} => unreleased = 0

\* C4: capture_stereo_frames returns (left, right) where each element is None
\* exactly when capture_frame on that engine returned None, and does not raise.
C4_IndependentPair ==
    Returned("capture_stereo_frames") =>
        /\ pair = <<cfReturn["left"], cfReturn["right"]>>
        /\ ~raised

C4_Witness ==
    /\ Returned("capture_stereo_frames")
    /\ pair = <<"None", "frame">>
    /\ camera["left"] # "None"

\* C5: close() does not raise and leaves camera None, converter None and
\* is_grabbing False, also when StopGrabbing, IsOpen or Close raised.
C5_CloseResets ==
    op = "close" => Closed(cur) /\ ~raised

C5_Witness ==
    /\ op = "close"
    /\ closeExc
    /\ pre.is_grabbing
    /\ Closed(cur)

\* C6: close() on an engine that holds no handle (never initialized, or closed
\* before) makes no device call, and close() in any state, also after an
\* initialize() that returned False, ends in the Closed state without raising.
C6_CloseIdempotent ==
    op = "close" =>
        /\ pre.camera = "None" => calls = {} /\ ~closeExc
        /\ camera[cur] = "None" /\ converter[cur] = "None" /\ ~is_grabbing[cur]
        /\ ~devOpen[cur]
        /\ ~raised

C6_Witness ==
    /\ op = "close"
    /\ pre.camera = "None"
    /\ calls = {}

\* C7: initialize() returns False without raising, and configures no device, when
\* no device is enumerated, when camera_index is not in 0..n-1 (auto-discovery), or
\* when opening the device fails.
C7_InitFailsOnBadInput ==
    (op = "initialize"
       /\ \/ initLog.n = 0
          \/ initLog.mode = "auto" /\ camera_index[cur] \notin 0..(initLog.n - 1)
          \/ initLog.openFailed)
    => result = "False" /\ ~raised /\ ~initLog.configured

Aliases == DOMAIN probes
Writable(a) == node[a] \in {"RW", "WO"}

RECURSIVE SumTo(_, _)
SumTo(f, k) == IF k = 0 THEN 0 ELSE f[k] + SumTo(f, k - 1)

\* C8: _safe_set_parameter tries the aliases in list order; once a SetValue has
\* completed on an alias the call is over with (True, that alias) and no later
\* alias has been probed or written; if no write ever completes it returns
\* (False, None); it does not raise.
C8_FirstSuccessWins ==
    /\ ~sp_raised
    /\ \A a \in Aliases : a > alias_i => probes[a] = 0 /\ writes[a] = 0
    /\ okWrite # 0 =>
         /\ sp_pc = "done"
         /\ sp_result = <<TRUE, okWrite>>
         /\ \A a \in Aliases : a > okWrite => probes[a] = 0 /\ writes[a] = 0
    /\ sp_pc = "done" /\ okWrite = 0 => sp_result = <<FALSE, 0>>

C8_Witness ==
    /\ sp_pc = "done"
    /\ Len(param_names) = 2
    /\ sp_result = <<TRUE, 1>>
    /\ probes[1] = 2
    /\ probes[2] = 0

\* C9: SetValue is never called on an alias whose node is absent or whose access
\* mode is neither RW nor WO; such an alias is passed over without an exception
\* and is never the alias reported as set.
C9_NoWriteUnlessWritable ==
    /\ \A a \in Aliases : writes[a] > 0 => Writable(a)
    /\ \A a \in Aliases : ~Writable(a) => sp_result # <<TRUE, a>>
    /\ \A a \in Aliases : (~Writable(a) /\ excs[a] = 0 /\ probes[a] > 0) => alias_i > a
    /\ ~sp_raised

C9_Witness ==
    /\ sp_pc = "done"
    /\ Len(param_names) = 2
    /\ node[1] = "RO"
    /\ probes[1] = 1
    /\ writes[1] = 0
    /\ sp_result = <<TRUE, 2>>

\* C10: an attempt that finds the alias absent or not writable is its last one
\* (one probe when nothing raised); an alias is attempted at most retries times;
\* a call makes at most len(param_names) * retries attempts, and it returns.
C10_AttemptsBounded ==
    \A a \in Aliases :
        /\ probes[a] <= retries
        /\ ~Writable(a) => probes[a] <= excs[a] + 1
        /\ (~Writable(a) /\ a < alias_i /\ excs[a] = 0 /\ retries > 0) => probes[a] = 1
        /\ SumTo(probes, Len(param_names)) <= Len(param_names) * retries

C10_BoundedAndTerminates ==
    /\ []C10_AttemptsBounded
    /\ <>(sp_pc = "done")

C10_Witness ==
    /\ sp_pc = "done"
    /\ Len(param_names) = 2
    /\ retries = DefaultRetries
    /\ probes[1] = DefaultRetries
    /\ excs[1] = DefaultRetries
    /\ node[2] = "absent"
    /\ probes[2] = 1
    /\ sp_result = <<FALSE, 0>>

\* ---- C11: whatever the parameters of the device answer (absent, read-only,
\* every write raising, the StreamGrabber or PixelFormat access raising),
\* _configure_camera returns without raising, initialize() goes on to the
\* converter, and, unless the converter construction or the buffer-count read of
\* the last log line raises, installs it and returns True.
C11_ConfigureNeverRaises ==
    (Returned("initialize") /\ initLog.configured)
    => /\ ~initLog.cfgRaised
       /\ initLog.raisedAt \in {"none", "converter", "bufread"}
       /\ initLog.raisedAt = "none" => result = "True" /\ converter[cur] = "Conv"
       /\ ~raised

C11_Witness ==
    /\ Returned("initialize") /\ initLog.configured
    /\ devNode["StreamGrabber"] = "noaccess" /\ devNode["PixelFormat"] = "noaccess"
    /\ result = "True" /\ converter[cur] = "Conv"

\* ---- C12: initialize() attempts no parameter write of _configure_camera while
\* the device is grabbing: a device that reports grabbing after Open has had a
\* StopGrabbing completed before the first write.
C12_NoWriteWhileGrabbing ==
    (Returned("initialize") /\ initLog.writes # <<>>)
    => /\ ~initLog.grabbingAtCfg
       /\ initLog.stale => initLog.stops >= 1

C12_Witness ==
    /\ Returned("initialize") /\ initLog.stale /\ initLog.stops = 1
    /\ initLog.writes # <<>> /\ result = "True"

\* ---- C13: in the writes _configure_camera attempts, every write of a
\* transport-layer parameter comes before every write of an acquisition
\* parameter, whatever each write's outcome.
C13_TransportBeforeAcquisition ==
    Returned("initialize")
    => \A i, j \in DOMAIN initLog.writes :
          (initLog.writes[i] \in TransportParams
           /\ initLog.writes[j] \in AcquisitionParams) => i < j

C13_Witness ==
    /\ Returned("initialize")
    /\ devNode["GevSCPD"] = "raise" /\ devNode["Gain"] = "raise"
    /\ \E i, j \in DOMAIN initLog.writes :
          /\ initLog.writes[i] = "GevHeartbeatTimeout"
          /\ initLog.writes[j] = "GainRaw"
          /\ i < j

\* ---- C14: in main.py, main_headless.py, main_enhanced.py and final_test.py,
\* when the first camera's initialize() returned True and the second camera's
\* returned False, close() has been called on the first camera by the time the
\* script has returned or exited.
C14_SiblingClosed ==
    (/\ s_pc = "done"
     /\ script \in {"main", "main_headless", "main_enhanced", "final_test"}
     /\ s_initRet = <<"True", "False">>)
    => \E i \in DOMAIN s_closes : s_closes[i] = 1

\* ---- C15: the capture loop of example_camera_usage.py reports the three
\* failing outcomes of a pair differently: left only absent as a failure of the
\* left camera, right only absent as a failure of the right camera, both absent
\* as a failure of both cameras.
C15_PartialFailureDistinct ==
    (script = "example_camera_usage" /\ s_frames # <<>>)
    => /\ s_frames = <<"None", "frame">> => s_report = {"left_failed"}
       /\ s_frames = <<"frame", "None">> => s_report = {"right_failed"}
       /\ s_frames = <<"None", "None">> => s_report = {"both_failed"}

\* ---- C16: main.py, main_headless.py and main_enhanced.py invoke alignment,
\* preprocessing and disparity estimation only on a pair whose two frames are
\* present; with either frame absent the script goes to its cleanup with no
\* processing call made.
C16_ProcessOnlyFullPairs ==
    script \in Pipelines
    => /\ s_stages # <<>> => s_frames = <<"frame", "frame">>
       /\ (/\ s_pc \in {"cleanup", "done"}
           /\ s_frames # <<>>
           /\ s_frames # <<"frame", "frame">>)
          => s_stages = <<>> /\ ~s_exc

C16_Witness ==
    /\ script = "main_enhanced" /\ s_pc = "done"
    /\ s_frames = <<"frame", "frame">>
    /\ s_stages = Pipeline("main_enhanced")
    /\ s_closes = <<1, 2>>

\* ---- C17: a capture_frame that gives up after its retries returns a failure
\* result that carries the error code and description the device reported for
\* the last failed grab.
C17_FailureCarriesError ==
    (/\ Returned("capture_frame")
     /\ retry_count > max_retries
     /\ grabError # "none")
    => result = grabError

\* the valid disparities of the estimator's result
ValidDisparities == {d_disp[x] : x \in {y \in DOMAIN d_disp : d_disp[y] > 0}}

\* ---- C18: in the visualization of both estimators every invalid pixel
\* (disparity <= 0 after marking) is 0; when the valid pixels hold at least two
\* distinct values, the smallest maps to 0, the largest to 255 and any other
\* value v to the integer part of 255 * (v - min) / (max - min), within 0..255.
C18_Normalization ==
    d_est # "none"
    => /\ \A x \in DOMAIN d_disp : d_disp[x] <= 0 => d_vis[x] = 0
       /\ \A x \in DOMAIN d_vis : d_vis[x] \in 0..255
       /\ Cardinality(ValidDisparities) >= 2
          => LET lo == MinOf(ValidDisparities)
                 hi == MaxOf(ValidDisparities)
             IN \A x \in DOMAIN d_disp :
                   /\ d_disp[x] = lo => d_vis[x] = 0
                   /\ d_disp[x] = hi => d_vis[x] = 255
                   /\ d_disp[x] > 0
                      => d_vis[x] = (255 * (d_disp[x] - lo)) \div (hi - lo)

C18_Witness ==
    /\ d_est = "bm" /\ ~d_wide
    /\ d_raw = <<-16, 400, 768, 800>>
    /\ d_disp = <<0, 400, 768, 800>>
    /\ d_vis = <<0, 0, 234, 255>>

\* the pixels of the matcher's output a pixel of the result is computed from
Sources(x) ==
    IF ~d_wide THEN {x}
    ELSE LET i == (x + 1) \div 2
             j == IF x % 2 = 1 THEN i - 1 ELSE i + 1
         IN {i} \cup ({j} \cap DOMAIN d_raw)

\* ---- C19: in both estimators a pixel whose raw matcher output is
\* non-positive or saturated (numDisparities * 16 or more) is marked 0 before
\* normalization, so that it is outside the min/max and 0 in the visualization.
C19_InvalidMarked ==
    d_est # "none"
    => \A x \in DOMAIN d_disp :
          (\A i \in Sources(x) :
              d_raw[i] <= 0 \/ d_raw[i] >= NumDisparities * FixedPoint)
          => d_disp[x] = 0 /\ d_vis[x] = 0

\* ---- C20: when the estimators ran on the half-size images, the disparity
\* returned for a pixel is twice the disparity the matcher computed at half
\* resolution (shown on the pixels whose neighbours hold the same valid
\* disparity, where resizing changes no value).
C20_DisparityDoubled ==
    (d_est # "none" /\ d_wide)
    => \A x \in DOMAIN d_disp :
          LET i == (x + 1) \div 2 IN
          (/\ d_raw[i] > 0 /\ d_raw[i] < NumDisparities * FixedPoint
           /\ \A j \in Sources(x) : d_raw[j] = d_raw[i])
          => d_disp[x] = 2 * d_raw[i]

\* align_stereo_pair_horizontally has returned
Aligned == a_pc = "done" /\ a_ret # 0

\* ---- C21: align_stereo_pair_horizontally returns both input frames unchanged
\* whenever descriptors are missing on either side or fewer than 10 matches
\* pass the ratio test; with exactly 10 good matches the alignment is not
\* skipped: the median offset decides.
C21_SkippedUnchanged ==
    Aligned =>
      /\ (~a_des[1] \/ ~a_des[2] \/ GoodCount(a_knn) < 10)
            => a_out = <<a_left, a_right>> /\ a_shift = <<>> /\ a_ret \in {101, 118}
      /\ (a_des[1] /\ a_des[2] /\ GoodCount(a_knn) = 10) => a_ret \in {140, 142}

\* nine pairs pass the ratio test, a tenth fails it: the frames come back as given
C21_Witness ==
    /\ Aligned /\ a_des = <<TRUE, TRUE>>
    /\ GoodCount(a_knn) = 9 /\ CountOver(a_knn, MatchKinds) > 9
    /\ a_out = <<a_left, a_right>>

\* ---- C22: align_stereo_pair_horizontally always returns the left frame
\* unchanged, and changes the right frame exactly when at least 10 good matches
\* exist and the median of (right y - left y) is in absolute value strictly
\* greater than 2; the right frame is then translated vertically by minus the
\* median offset and by nothing horizontally; at a median of exactly 2 or -2 no
\* shift is applied.
C22_ShiftByMedian ==
    Aligned =>
      LET shifted == /\ a_des[1] /\ a_des[2] /\ GoodCount(a_knn) >= 10
                     /\ Abs(Median2(a_knn)) > 4
      IN
      /\ a_out[1] = a_left
      /\ a_out[2] # a_right <=> shifted
      /\ shifted => /\ a_shift = <<0, -Median2(a_knn)>>
                    /\ a_out[2] = Translate(a_right, -Median2(a_knn))
      /\ ~shifted => a_shift = <<>>

\* ten good matches with a median offset of -2.5 pixels: the right frame is
\* moved down by 2.5 pixels
C22_Witness ==
    /\ Aligned /\ GoodCount(a_knn) = 10 /\ Median2(a_knn) = -5
    /\ a_shift = <<0, 5>> /\ a_out[2] # a_right

\* the positions of an event in the trace
Positions(ev) == {i \in DOMAIN trace : trace[i] = ev}

\* ---- C23: in capture_stereo_frames no grab is issued on the right camera
\* until capture_frame on the left camera has returned, all its retries
\* included; the right camera's capture_frame is then invoked exactly once,
\* whether the left capture yielded a frame or not; the grabs of the two
\* cameras are never interleaved.
C23_LeftThenRight ==
    op = "capture_stereo_frames" =>
      /\ \A i \in Positions(<<"grab", "right">>) :
            /\ \E j \in Positions(<<"ret", "left">>) : j < i
            /\ \A j \in Positions(<<"grab", "left">>) : j < i
      /\ \A i \in Positions(<<"call", "right">>) :
            \E j \in Positions(<<"ret", "left">>) : j < i
      /\ Cardinality(Positions(<<"ret", "left">>)) =
            Cardinality(Positions(<<"call", "right">>))
      /\ pc = "idle" => /\ Cardinality(Positions(<<"call", "left">>)) = 1
                        /\ Cardinality(Positions(<<"call", "right">>)) = 1
                        /\ Cardinality(Positions(<<"ret", "right">>)) = 1

\* the left capture failed after three grabs, and the right camera grabbed
C23_Witness ==
    /\ Returned("capture_stereo_frames")
    /\ pair[1] = "None"
    /\ Cardinality(Positions(<<"grab", "left">>)) = 3
    /\ Positions(<<"grab", "right">>) # {}

\* ---- C24: in capture_frame the delay slept before a retry grows with the
\* retry counter: the delay before retry k+1 is strictly longer than the
\* delay before retry k, and nothing is slept before the first attempt.
C24_DelayEscalates ==
    op = "capture_frame" =>
      /\ Len(delays) <= retry_count
      /\ \A k \in 1..(Len(delays) - 1) : delays[k] < delays[k + 1]

\* ---- C29: capture_stereo_frames measures the elapsed time of the pair
\* capture and reports it on every call, whatever the outcome (both frames
\* present, one absent, both absent).
C29_TimeAlwaysReported ==
    Returned("capture_stereo_frames") => Positions(<<"report", "pair">>) # {}

\* ---- C25: in _safe_set_parameter, once SetValue on an alias has completed
\* without raising, a read-back that raises does not turn the result into a
\* failure and causes neither a retry nor a move to a further alias: the call
\* returns (True, that alias) at once.
C25_ReadBackFailureIgnored ==
    readBack = "raised" =>
      LET a == param_names[alias_i] IN
      /\ sp_pc = "done" /\ ~sp_raised
      /\ sp_result = <<TRUE, a>>
      /\ okWrite = a
      /\ \A j \in DOMAIN param_names : j > alias_i => probes[param_names[j]] = 0

\* the read-back raised on the first of two aliases, after a SetValue that
\* raised once before
C25_Witness ==
    /\ readBack = "raised" /\ sp_pc = "done"
    /\ Len(param_names) = 2 /\ alias_i = 1
    /\ writes[1] = 2
    /\ sp_result = <<TRUE, 1>>

\* the position of step x in the steps the last initialize() completed, 0 if
\* it did not complete x
StepAt(x) ==
    IF \E i \in DOMAIN initLog.steps : initLog.steps[i] = x
    THEN CHOOSE i \in DOMAIN initLog.steps : initLog.steps[i] = x
    ELSE 0

\* ---- C26: on the success path initialize() sets the buffer-count hint,
\* then opens the device, then checks for and stops stale grabbing, then runs
\* the parameter configurator, then installs the converter; the configurator
\* never runs on a device that was not opened, and the converter is installed
\* only after the configuration has finished.
C26_InitOrder ==
    op = "initialize" =>
      /\ result = "True" =>
            /\ 0 < StepAt("bufhint") /\ StepAt("bufhint") < StepAt("open")
            /\ StepAt("open") < StepAt("isgrab1")
            /\ initLog.stale => StepAt("isgrab1") < StepAt("stop")
                                /\ StepAt("stop") < StepAt("configure")
            /\ StepAt("isgrab1") < StepAt("configure")
            /\ StepAt("configure") < StepAt("converter")
      /\ StepAt("configure") > 0 \/ initLog.raisedAt = "configure"
            => StepAt("open") > 0 /\ devOpen[cur]
      /\ StepAt("converter") > 0
            => 0 < StepAt("configure") /\ StepAt("configure") < StepAt("converter")
      /\ converter[cur] # pre.converter => StepAt("converter") > 0

\* initialize() succeeded on a device found grabbing after Open
C26_Witness ==
    /\ Returned("initialize") /\ result = "True"
    /\ initLog.stale
    /\ initLog.steps = <<"create", "bufhint", "open", "isgrab1", "stop", "isgrab2",
                         "configure", "converter", "bufread">>

\* ---- C27: after initialize() returns True the engine is Open and Idle,
\* whatever state it was called in: is_grabbing is False, the device reports
\* not grabbing, the camera is open and the converter is installed.
C27_InitEndsIdle ==
    (Returned("initialize") /\ result = "True")
    => /\ ~is_grabbing[cur]
       /\ ~devGrabbing[cur]
       /\ camera[cur] = "Dev" /\ devOpen[cur]
       /\ converter[cur] = "Conv"

\* ---- C28: across a sequence of capture_frame_continuous calls on an open
\* engine, with no stop, capture_frame or close in between, StartGrabbing is
\* requested by the first call only: a call that follows another one only
\* retrieves a result.  A capture_frame that comes after them has the engine
\* back in the Idle state when it issues its single-shot grab.
C28_StartedOnce ==
    /\ (op = "capture_frame_continuous" /\ contRun /\ camera[cur] = "Dev" /\ devOpen[cur])
          => "StartGrabbing" \notin calls
    /\ (op = "capture_frame" /\ pre.is_grabbing /\ grabState # <<>>)
          => grabState = <<FALSE, FALSE>>

\* ---- C30: both estimators downsample the two frames by 0.5 exactly when
\* the left frame is wider than 2000 pixels (a width of exactly 2000 is
\* processed at full resolution); both frames are then resized to the same
\* size int(w * 0.5) x int(h * 0.5); and the visualization returned always has
\* the height and the width of the left input frame.
C30_DownsampleAndShape ==
    d_est # "none" =>
      LET w == d_left[1]
          h == d_left[2]
      IN
      /\ w > 2000 => d_small = << <<w \div 2, h \div 2>>, <<w \div 2, h \div 2>> >>
      /\ w <= 2000 => d_small = <<d_left, d_right>>
      /\ d_est \in {"bm", "sgbm"} => d_shape = <<h, w>> /\ Len(d_vis) > 0

\* an image 2001 pixels wide and 1501 high with a right image of another size
C30_Witness ==
    /\ d_est = "sgbm"
    /\ d_left = <<2001, 1501>> /\ d_right # d_left
    /\ d_small = << <<1000, 750>>, <<1000, 750>> >>
    /\ d_shape = <<1501, 2001>>

\* ---- C31: after initialize() returns False the engine holds no open device,
\* at whatever step initialize failed: is_connected() returns False, and a
\* capture_frame called next (on an engine that holds a handle but, no
\* initialize() having succeeded, no converter) returns None without a grab.
C31_FailedInitNotConnected ==
    /\ (Returned("initialize") /\ result = "False") => ~is_connected(cur, "ok")
    /\ (op = "capture_frame" /\ pre.camera = "Dev" /\ pre.converter = "None")
          => grabs = 0

\* the devices the engine of the last initialize() has opened and not closed:
\* the one in self.camera and the one that call replaced without closing it
OpenDevices ==
    (IF camera[cur] = "Dev" /\ devOpen[cur] THEN 1 ELSE 0)
      + (IF initLog.orphan THEN 1 ELSE 0)

\* ---- C32: an engine never owns more than one open device: the devices it
\* has opened and not closed number at most 1, also after initialize() is
\* called again on an engine that is already Open.
C32_AtMostOneDevice ==
    op = "initialize" => OpenDevices <= 1

\* ---- C33: in every reachable state is_grabbing True implies that camera is
\* not None; and start_grabbing on an engine that is Closed or whose device is
\* not open leaves is_grabbing False, requests no StartGrabbing and does not
\* return True.
C33_FlagOnlyOnOpenEngine ==
    /\ \A c \in Cam : is_grabbing[c] => camera[c] # "None"
    /\ (Returned("start_grabbing") /\ (camera[cur] = "None" \/ ~devOpen[cur]))
          => /\ ~is_grabbing[cur]
             /\ "StartGrabbing" \notin calls
             /\ result # "True"

\* ---- C34: neither estimator marks a valid match invalid: a pixel computed
\* from raw matcher outputs that are all strictly positive and below the
\* saturation value numDisparities * 16 has a strictly positive disparity in
\* the result, without downsampling and with downsampling by 0.5.
C34_ValidKept ==
    d_est \in {"bm", "sgbm"}
    => \A x \in DOMAIN d_disp :
          (\A i \in Sources(x) :
              d_raw[i] > 0 /\ d_raw[i] < NumDisparities * FixedPoint)
          => d_disp[x] > 0

\* ---- C35: in main.py and main_headless.py, once both cameras have been
\* initialized, close() is called exactly once on each camera on every path
\* out of main(): normal completion, the early return taken when a frame is
\* absent, and an exception raised during processing.
C35_ClosedOnEveryPath ==
    (/\ script \in {"main", "main_headless"}
     /\ s_pc = "done"
     /\ s_initRet = <<"True", "True">>)
    => /\ ExitPath \in {"normal", "return", "exception"}
       /\ s_closes = <<1, 2>>

\* main_headless.py left by the early return after a pair with no right frame
C35_Witness ==
    /\ script = "main_headless" /\ s_pc = "done"
    /\ s_initRet = <<"True", "True">>
    /\ s_frames = <<"frame", "None">> /\ ExitPath = "return"
    /\ s_closes = <<1, 2>>

\* the last capture_frame was called on an engine that holds no handle or
\* whose device is not open
CalledUnopened == pre.camera = "None" \/ ~devOpen[cur]

\* C36 as stated: capture_frame called on an engine that is Closed or whose
\* device is not open returns None immediately: no grab, no stop request, no
\* retry delay, no retry consumed, and camera, converter and is_grabbing
\* unchanged.
C36_Original ==
    (op = "capture_frame" /\ CalledUnopened)
    => /\ result = "None"
       /\ Positions(<<"grab", cur>>) = {} /\ Positions(<<"stop", cur>>) = {}
       /\ delays = <<>>
       /\ retry_count = 0
       /\ Fields(cur) = pre

\* ---- C36 (amended): capture_frame called on an engine that is Closed or
\* whose device is not open returns None with no grab, no stop request and no
\* retry delay, and leaves camera, converter and is_grabbing unchanged; on a
\* Closed engine, and whenever IsOpen() answers, it returns at once without
\* consuming a retry, while each IsOpen() call that raises consumes one retry.
C36_UnopenedReturnsNone ==
    (op = "capture_frame" /\ CalledUnopened)
    => /\ result = "None"
       /\ Positions(<<"grab", cur>>) = {} /\ Positions(<<"stop", cur>>) = {}
       /\ delays = <<>>
       /\ retry_count = Cardinality(Positions(<<"IsOpenRaised", cur>>))
       /\ pre.camera = "None" => retry_count = 0
       /\ Fields(cur) = pre

\* a device that is not open but was left flagged as grabbing: None at once
C36_Witness ==
    /\ Returned("capture_frame")
    /\ pre.camera = "Dev" /\ ~devOpen[cur] /\ pre.is_grabbing
    /\ retry_count = 0 /\ result = "None"

\* C37: capture_frame stops at the first successful grab: while its loop runs
\* every grab issued so far has failed, and when it returns a frame after k
\* grabs (1 <= k <= max_retries + 1) the frame is the one converted from the k-th
\* grab result, the k - 1 grabs before it failed, exactly k grabs were issued and
\* the k-th is the last thing the call did before returning.
C37_StopsAtFirstSuccess ==
    op = "capture_frame" =>
      /\ pc = "cf" => grabs <= retry_count /\ frameOf = 0
      /\ Returned("capture_frame") =>
           /\ result = "frame" <=> frameOf # 0
           /\ result = "frame" =>
                /\ frameOf = grabs
                /\ 1 <= grabs /\ grabs <= max_retries + 1
                /\ retry_count >= grabs - 1
                /\ Cardinality(Positions(<<"grab", cur>>)) = grabs
                /\ Len(trace) - 1 \in Positions(<<"grab", cur>>)
                /\ trace[Len(trace)] = <<"ret", cur>>

C37_Witness ==
    /\ Returned("capture_frame")
    /\ max_retries = 2
    /\ result = "frame" /\ frameOf = 2 /\ grabs = 2
    /\ retry_count = 1

\* C38: capture_stereo_frames terminates whatever the grabs on the two cameras
\* do, and one call issues at most max_retries + 1 = 3 grabs on each camera, at
\* most 6 for the pair.
C38_GrabsBounded ==
    op = "capture_stereo_frames" =>
      /\ max_retries = 2
      /\ \A c \in Cam : Cardinality(Positions(<<"grab", c>>)) <= 3
      /\ Cardinality({i \in DOMAIN trace : trace[i][1] = "grab"}) <= 6
      /\ Len(delays) <= 2

C38_StereoTerminates ==
    /\ []C38_GrabsBounded
    /\ (pc = "cf") ~> (pc = "idle")

C38_Witness ==
    /\ Returned("capture_stereo_frames")
    /\ \A c \in Cam : Cardinality(Positions(<<"grab", c>>)) = 3
    /\ pair = <<"None", "None">>

\* C39: _safe_set_parameter returns (True, alias) exactly when a SetValue on that
\* alias completed without raising: while it runs no SetValue has completed, a
\* call that ends without one returns (False, None), and whatever the read-back
\* did (returned the value, another value, or raised) the pass that reached it
\* is the last one and returns (True, alias).
C39_SuccessIffWritten ==
    /\ sp_pc = "run" => okWrite = 0 /\ readBack = "none"
    /\ sp_pc = "done" =>
         /\ sp_result[1] <=> okWrite # 0
         /\ sp_result[1] <=> readBack # "none"
         /\ sp_result[1] =>
              /\ sp_result[2] = okWrite
              /\ okWrite = param_names[alias_i]
              /\ writes[okWrite] >= 1
              /\ probes[okWrite] = attempt + 1
         /\ ~sp_result[1] => sp_result = <<FALSE, 0>>

\* the read-back returned another value on the second attempt of the first of
\* two aliases
C39_Witness ==
    /\ sp_pc = "done" /\ readBack = "differs"
    /\ Len(param_names) = 2 /\ alias_i = 1
    /\ probes[1] = 2 /\ probes[2] = 0
    /\ sp_result = <<TRUE, 1>>

\* SetValue was called on parameter (or with format) x by the last initialize()
Written(x) == \E i \in DOMAIN initLog.writes : initLog.writes[i] = x
IsFormat(x) == x \in Formats
FormatsWritten == SelectSeq(initLog.writes, IsFormat)
Rank(f) == CHOOSE i \in DOMAIN FormatPriority : FormatPriority[i] = f

\* C40: the configurator's fallbacks depend on the earlier result: GainRaw is
\* written only when Gain was not set, and after every write of Gain;
\* AcquisitionFrameRate (or its alias) only when AcquisitionFrameRateEnable was
\* set; and the PixelFormat writes go down the priority list over the formats
\* the device offers, every one before the last having been refused, so that
\* the format set is the first offered one whose write is accepted and none is
\* written after it.
C40_GatedFallbacks ==
    initLog.configured =>
      LET w == initLog.writes
          fw == FormatsWritten
      IN
      /\ Written("GainRaw") =>
           /\ devNode["Gain"] # "ok"
           /\ \A i, j \in DOMAIN w : (w[i] = "Gain" /\ w[j] = "GainRaw") => i < j
      /\ (Written("AcquisitionFrameRate") \/ Written("AcquisitionFrameRateAbs")) =>
           /\ devNode["AcquisitionFrameRateEnable"] = "ok"
           /\ \A i, j \in DOMAIN w :
                 (w[i] = "AcquisitionFrameRateEnable"
                  /\ w[j] \in {"AcquisitionFrameRate", "AcquisitionFrameRateAbs"}) => i < j
           /\ Written("AcquisitionFrameRateEnable")
      /\ \A i, j \in DOMAIN fw : i < j => Rank(fw[i]) < Rank(fw[j])
      /\ \A i \in DOMAIN fw :
           /\ devNode[fw[i]] # "absent"
           /\ i < Len(fw) => ~FormatAccepted(devNode, fw[i])
           /\ \A f \in Formats :
                (Rank(f) < Rank(fw[i]) /\ devNode[f] # "absent") =>
                  \E k \in 1..(i - 1) : fw[k] = f
      /\ \A f \in Formats :
           (FormatAccepted(devNode, f)
            /\ \A g \in Formats : Rank(g) < Rank(f) => ~FormatAccepted(devNode, g))
           => fw # <<>> /\ fw[Len(fw)] = f

\* Gain and RGB8 refuse every write: GainRaw is written after the three writes
\* of Gain, BayerRG8 after RGB8 and nothing after BayerRG8
C40_Witness ==
    /\ Returned("initialize") /\ result = "True" /\ initLog.configured
    /\ devNode["Gain"] = "raise" /\ devNode["RGB8"] = "raise"
    /\ Written("GainRaw") /\ Written("AcquisitionFrameRate")
    /\ FormatsWritten = <<"RGB8", "BayerRG8">>

====
